---- MODULE Spec2Model ----
(***************************************************************************)
(* WealthPulse scoring core: the fresh-signal scorer                       *)
(* (snapshot/fresh_signals_v0.py), the technical guardrail                 *)
(* (snapshot/tech_guardrail_v0.py), the 13F scorer                         *)
(* (snapshot/recommendations_v0.py), the segment classifier                *)
(* (snapshot/segments_v0.py), the trend snapshot (snapshot/trend.py), the  *)
(* subscriber lifecycle (subscriptions.py) and the alert sender            *)
(* (alerts/send_subscriber_alerts_v0.py).                                  *)
(*                                                                         *)
(* Units.  Money is counted in thousands of dollars (100 = $100,000), the  *)
(* insider net value in fifths of that ($200) so that the 0.20 weight of   *)
(* 10b5-1 trades stays an integer.  Confidence is counted in hundredths    *)
(* (25 = 0.25), the guardrail factor ft in ten-thousandths (10500 = 1.05). *)
(* Token lifetimes and the clock of the subscriber model are counted in    *)
(* days (48 hours = 2).                                                    *)
(* An Optional value is None == <<>> or Some(v) == <<v>>.                  *)
(***************************************************************************)
EXTENDS Integers, Sequences, FiniteSets, TLC

VARIABLES
    pc,         \* which entry point is running and where it stands
    features,   \* FreshSignalFeatures handed to score_fresh_signal_v0
    params,     \* FreshSignalParams
    row,        \* FreshSignalRow returned by score_fresh_signal_v0 (None before the call)
    sc13_table,     \* LargeOwnerFiling rows in the database
    insider_table,  \* InsiderTx rows (joined with InsiderTxMeta) in the database
    fresh_out,      \* list returned by compute_fresh_signals_v0 (None before the call)
    whale_rows,     \* list of WhaleDeltaRow handed to score_recommendations_from_13f
    coverage,       \* mapped_coverage_ratio (Optional, in hundredths)
    recs_top_n,     \* top_n of score_recommendations_from_13f
    recs_out,       \* list returned by score_recommendations_from_13f (None before the call)
    fresh_store,    \* SnapshotRecommendation rows of the latest fresh_signals_v0 run
    recs_store,     \* SnapshotRecommendation rows of the latest recommendations_v0 run
    picks_per_segment,  \* argument of compute_segments_v0
    segments_out,   \* what compute_segments_v0 returns (None before the call)
    guard_score,    \* score handed to apply_tech_guardrail_v0
    guard_tech,     \* tech handed to apply_tech_guardrail_v0 (Optional dict)
    guard_out,      \* TechGuardrailResult returned (None before the call)
    cands_in,       \* candidate list handed to _choose_primary_segment
    primary_out,    \* the SegmentCandidate it returns (None before the call)
    trend_dates,    \* dates handed to compute_technical_snapshot_from_closes
    trend_closes,   \* closes handed to compute_technical_snapshot_from_closes
    snapshot_out,   \* the snapshot dict returned (None before the call)
    subscribers,        \* Subscriber rows in the database; a row's id is its position
    subscriber_tokens,  \* SubscriberToken rows; the plaintext token is the row's position
    clock,              \* datetime.utcnow(), in days
    last_call,          \* the last call made on the subscription functions and its result
    alert_run,          \* the AlertRun row of the run being sent
    alert_deliveries,   \* AlertDelivery rows in the database
    send_frame,         \* locals of a running send_subscriber_alert_run_v0 (None between calls)
    smtp_log            \* subscriber ids handed to send_email_smtp, in order

scoreVars == <<features, row>>
freshVars == <<sc13_table, insider_table, fresh_out>>
recsVars == <<whale_rows, coverage, recs_top_n, recs_out>>
segVars == <<fresh_store, recs_store, picks_per_segment, segments_out>>
guardVars == <<guard_score, guard_tech, guard_out>>
chooseVars == <<cands_in, primary_out>>
trendVars == <<trend_dates, trend_closes, snapshot_out>>
subVars == <<subscribers, subscriber_tokens, clock, last_call>>
alertVars == <<alert_run, alert_deliveries, send_frame, smtp_log>>
vars == <<pc, params, scoreVars, freshVars, recsVars, segVars, guardVars, chooseVars, trendVars,
          subVars, alertVars>>

None == << >>
Some(v) == <<v>>
IsNone(x) == x = << >>
Val(x) == x[1]

Max(a, b) == IF a >= b THEN a ELSE b
Min(a, b) == IF a <= b THEN a ELSE b
Abs(x) == IF x < 0 THEN 0 - x ELSE x

\* round(): Python rounds an exact tie to the even neighbour.  num/den with den > 0.
RoundHalfEven(num, den) ==
    LET q == num \div den
        r == num % den
    IN  IF 2 * r > den THEN q + 1
        ELSE IF 2 * r < den THEN q
        ELSE IF q % 2 = 0 THEN q ELSE q + 1

----------------------------------------------------------------------------
(* tech_guardrail_v0.py *)

clamp_int(x, lo, hi) == Max(lo, Min(hi, x))

\* ft without the chasing penalty.
GuardrailFtNoChasePenalty(tech) ==
    IF Val(tech).bullish /\ Val(tech).near_support THEN 10500 ELSE 10000

\* ft after the two multiplicative branches, in ten-thousandths.
GuardrailFt(tech) ==
    LET t == Val(tech)
        f1 == IF t.bullish /\ t.near_support THEN 105 ELSE 100
        f2 == IF t.bullish /\ (t.extended_up \/ t.near_resistance_60d) THEN 90 ELSE 100
    IN  f1 * f2

GuardrailAdj(tech) ==
    LET t == Val(tech)
    IN  (IF t.bullish /\ t.near_support THEN 2 ELSE 0)
        + (IF t.below_sma200 /\ ~t.bullish THEN 0 - 3 ELSE 0)

apply_tech_guardrail_v0(score, tech) ==
    IF IsNone(tech)
    THEN [score_before |-> score, score_after |-> score, ft |-> 10000, adj |-> 0,
          notes |-> <<"no technical data">>]
    ELSE LET ft == GuardrailFt(tech)
             adj == GuardrailAdj(tech)
             t == Val(tech)
             notes == (IF t.bullish /\ t.near_support THEN <<"near SMA50 support">> ELSE << >>)
                      \o (IF t.bullish /\ t.extended_up THEN <<"extended above SMA50">> ELSE << >>)
                      \o (IF t.bullish /\ t.near_resistance_60d THEN <<"near 60D high">> ELSE << >>)
                      \o (IF t.below_sma200 /\ ~t.bullish THEN <<"below SMA200">> ELSE << >>)
         IN  [score_before |-> score,
              score_after |-> clamp_int(RoundHalfEven(score * ft + adj * 10000, 10000), 0, 100),
              ft |-> ft, adj |-> adj,
              notes |-> IF notes = << >> THEN <<"neutral">> ELSE notes]

----------------------------------------------------------------------------
(* fresh_signals_v0.py: score_fresh_signal_v0 *)

\* FreshSignalParams defaults.
DefaultFreshDays == 7
DefaultInsiderMinValue == 100
DefaultTopN == 20
DefaultBuyScoreThreshold == 75
DefaultAvoidScoreThreshold == 35

\* clamp without the ceiling.
clampFloorOnly(x, lo, hi) == Max(lo, x)

clamp(x, lo, hi) == Max(lo, Min(hi, x))

\* SC13 component without its base of 45.
Sc13ComponentNoBase(f) ==
    IF f.sc13_count > 0 THEN Min(15, 5 * Min(f.sc13_count, 3)) ELSE 0

\* SC13 component: 45 + min(15, 5 * min(count, 3)) when a filing is present.
Sc13Component(f) ==
    IF f.sc13_count > 0 THEN 45 + Min(15, 5 * Min(f.sc13_count, 3)) ELSE 0

\* net = (buy - sell) + 0.20 * (buy_10b5 - sell_10b5), in units of $200.
NetValue(f) ==
    5 * (f.insider_buy_value - f.insider_sell_value)
    + (f.insider_buy_value_10b5 - f.insider_sell_value_10b5)

\* net_component = 25 * clamp(log1p(|net| / 1e6) / log1p(100), 0, 1) is the only
\* non-integer term of the sum, and the sum is used only through
\* int(round(clamp(score, 0, 100))).  Step k of the table is the smallest |net|
\* (in $200) with net_component >= k - 0.5, i.e. ceil(5000 * (101^((k-0.5)/25) - 1)),
\* so the number of steps reached is round(net_component).
NetComponentSteps ==
    <<484, 1596, 2933, 4541, 6475, 8802, 11600, 14965, 19013, 23881,
      29737, 36779, 45250, 55438, 67691, 82428, 100154, 121473, 147114, 177954,
      215047, 259659, 313317, 377854, 455474>>

\* Net component added whatever the sign of net.
NetComponentUnsigned(f) ==
    Cardinality({k \in 1..25 : Abs(NetValue(f)) >= NetComponentSteps[k]})

NetComponent(f) ==
    LET net == NetValue(f)
        a == Abs(net)
        mag == Cardinality({k \in 1..25 : a >= NetComponentSteps[k]})
    IN  IF net > 0 THEN mag
        ELSE IF net < 0 THEN 0 - mag
        ELSE 0

TrendComponent(f) ==
    IF f.trend_bullish_recent THEN 10
    ELSE IF f.trend_bearish_recent THEN 0 - 10
    ELSE 0

VolumeComponent(f) ==
    IF f.volume_spike /\ f.trend_bullish_recent THEN 5
    ELSE IF f.volume_spike /\ f.trend_bearish_recent THEN 0 - 5
    ELSE 0

Context13FComponent(f) ==
    IF IsNone(f.context_13f) THEN 0
    ELSE IF Val(f.context_13f).delta_value_usd > 0 THEN 5
    ELSE IF Val(f.context_13f).delta_value_usd < 0 THEN 0 - 3
    ELSE 0

MarketScoreAdj(f) ==
    IF IsNone(f.market) THEN 0
    ELSE IF Val(f.market).bearish_recent THEN 0 - 2
    ELSE IF Val(f.market).bullish_recent THEN 1
    ELSE 0

MarketConfAdj(f) ==
    IF IsNone(f.market) THEN 0
    ELSE IF Val(f.market).bearish_recent THEN 0 - 5
    ELSE IF Val(f.market).bullish_recent THEN 2
    ELSE 0

SectorScoreAdj(f) ==
    IF IsNone(f.sector) THEN 0
    ELSE IF Val(f.sector).bearish_recent THEN 0 - 1
    ELSE IF Val(f.sector).bullish_recent THEN 1
    ELSE 0

SectorConfAdj(f) ==
    IF IsNone(f.sector) THEN 0
    ELSE IF Val(f.sector).bearish_recent THEN 0 - 2
    ELSE IF Val(f.sector).bullish_recent THEN 1
    ELSE 0

\* Social listener that boosts every spike, whatever the sentiment.
SocialAdjIgnoringSentiment(f) ==
    IF IsNone(f.social) \/ ~Val(f.social).enabled THEN <<0, 0>>
    ELSE LET s == Val(f.social)
             spike == s.velocity >= s.velocity_threshold /\ s.mentions_latest >= s.min_mentions
         IN  IF s.persistent /\ spike THEN <<4, 4>>
             ELSE IF spike THEN <<1, 0 - 1>>
             ELSE <<0, 0>>

\* Social listener: <<score adjustment, confidence adjustment>>.
\* velocity, velocity_threshold and sentiment_hint are in hundredths.
SocialAdj(f) ==
    IF IsNone(f.social) \/ ~Val(f.social).enabled THEN <<0, 0>>
    ELSE LET s == Val(f.social)
             spike == s.velocity >= s.velocity_threshold /\ s.mentions_latest >= s.min_mentions
             nonneg == IsNone(s.sentiment_hint) \/ Val(s.sentiment_hint) >= 0
         IN  IF s.persistent /\ spike
             THEN (IF nonneg THEN <<4, 4>> ELSE <<0 - 4, 0 - 4>>)
             ELSE IF spike
             THEN <<(IF nonneg THEN 1 ELSE 0 - 1), 0 - 1>>
             ELSE <<0, 0>>

\* The components in the order of the code: SC13, insider net, trend, volume, 13F
\* context, market regime, sector regime, social listener.
ComponentValues(f) ==
    <<Sc13Component(f), NetComponent(f), TrendComponent(f), VolumeComponent(f),
      Context13FComponent(f), MarketScoreAdj(f), SectorScoreAdj(f), SocialAdj(f)[1]>>

\* The sum started at 0 instead of the neutral 50.
RawScoreZeroBased(f) ==
    Sc13Component(f) + NetComponent(f) + TrendComponent(f) + VolumeComponent(f)
       + Context13FComponent(f) + MarketScoreAdj(f) + SectorScoreAdj(f) + SocialAdj(f)[1]

\* The sum before the clamp, with the net component already rounded.
RawScore(f) ==
    50 + Sc13Component(f) + NetComponent(f) + TrendComponent(f) + VolumeComponent(f)
       + Context13FComponent(f) + MarketScoreAdj(f) + SectorScoreAdj(f) + SocialAdj(f)[1]

\* score_i = int(round(_clamp(score, 0.0, 100.0)))
BaseScore(f) == clamp(RawScore(f), 0, 100)

\* tg = apply_tech_guardrail_v0(score=score_i, tech=features.trend)
Guardrail(f) == apply_tech_guardrail_v0(BaseScore(f), f.trend)

ClusterBuy(f, p) ==
    f.insider_cluster_buy_insiders >= 3 /\ f.insider_buy_value >= p.insider_min_value

\* score_i after the cluster bonus, from the guardrail's score_after.
ClusterBonus(score_i, f, p) ==
    IF ClusterBuy(f, p) THEN clamp(score_i + 5, 0, 100) ELSE score_i

Direction(f) ==
    LET net == NetValue(f)
        d1 == IF f.trend_bullish_recent \/ net > 0 THEN "bullish" ELSE "neutral"
    IN  IF f.trend_bearish_recent \/ net < 0
        THEN (IF d1 = "neutral" THEN "bearish" ELSE d1)
        ELSE d1

InsiderDir(f) ==
    LET net == NetValue(f)
    IN  IF net > 0 THEN "bullish" ELSE IF net < 0 THEN "bearish" ELSE "neutral"

TrendDir(f) ==
    IF f.trend_bullish_recent THEN "bullish"
    ELSE IF f.trend_bearish_recent THEN "bearish"
    ELSE "neutral"

DivergenceRecord(l, i, t, s, c) ==
    [label |-> l, insider_direction |-> i, trend_direction |-> t,
     score_adjustment |-> s, confidence_adjustment |-> c]

\* The chain with the SC13 branch not testing the trend direction.
DivergenceSc13AnyTrend(f) ==
    LET i == InsiderDir(f)
        t == TrendDir(f)
    IN  IF i = "bullish" /\ t = "bearish" THEN DivergenceRecord("bullish_divergence", i, t, 3, 0 - 3)
        ELSE IF i = "bearish" /\ t = "bullish" THEN DivergenceRecord("bearish_divergence", i, t, 0 - 8, 0 - 8)
        ELSE IF f.sc13_count > 0 THEN DivergenceRecord("sc13_trend_conflict", i, t, 0 - 4, 0 - 6)
        ELSE IF i # "neutral" /\ i = t THEN DivergenceRecord("alignment", i, t, 1, 2)
        ELSE DivergenceRecord("none", i, t, 0, 0)

\* The chain with the alignment branch tested before the SC13 branch.
DivergenceAlignmentFirst(f) ==
    LET i == InsiderDir(f)
        t == TrendDir(f)
    IN  IF i = "bullish" /\ t = "bearish" THEN DivergenceRecord("bullish_divergence", i, t, 3, 0 - 3)
        ELSE IF i = "bearish" /\ t = "bullish" THEN DivergenceRecord("bearish_divergence", i, t, 0 - 8, 0 - 8)
        ELSE IF i # "neutral" /\ i = t THEN DivergenceRecord("alignment", i, t, 1, 2)
        ELSE IF f.sc13_count > 0 /\ t = "bearish" THEN DivergenceRecord("sc13_trend_conflict", i, t, 0 - 4, 0 - 6)
        ELSE DivergenceRecord("none", i, t, 0, 0)

\* The if/elif chain of the divergence label; adjustments: score points, confidence hundredths.
Divergence(f) ==
    LET i == InsiderDir(f)
        t == TrendDir(f)
    IN  IF i = "bullish" /\ t = "bearish" THEN DivergenceRecord("bullish_divergence", i, t, 3, 0 - 3)
        ELSE IF i = "bearish" /\ t = "bullish" THEN DivergenceRecord("bearish_divergence", i, t, 0 - 8, 0 - 8)
        ELSE IF f.sc13_count > 0 /\ t = "bearish" THEN DivergenceRecord("sc13_trend_conflict", i, t, 0 - 4, 0 - 6)
        ELSE IF i # "neutral" /\ i = t THEN DivergenceRecord("alignment", i, t, 1, 2)
        ELSE DivergenceRecord("none", i, t, 0, 0)

\* score_i after the divergence adjustment: the returned score.
DivergenceAdjust(score_i, dv) ==
    IF dv.score_adjustment # 0 THEN clamp(score_i + dv.score_adjustment, 0, 100) ELSE score_i

HasFreshEvent(f, p) ==
    \/ f.sc13_count > 0
    \/ f.insider_buy_value >= p.insider_min_value
    \/ f.insider_sell_value >= p.insider_min_value
    \/ f.insider_buy_value_10b5 >= p.insider_min_value
    \/ f.insider_sell_value_10b5 >= p.insider_min_value

\* action with a strict comparison against the avoid threshold.
ActionStrictAvoid(score_i, dv, f, p) ==
    LET net == NetValue(f)
    IN  IF /\ score_i >= p.buy_score_threshold
           /\ HasFreshEvent(f, p)
           /\ (f.trend_bullish_recent \/ net > 0)
        THEN "buy"
        ELSE IF /\ score_i < p.avoid_score_threshold
                /\ HasFreshEvent(f, p)
                /\ (f.trend_bearish_recent \/ (net < 0 /\ ~f.trend_bullish_recent))
        THEN "avoid"
        ELSE IF dv.label = "bearish_divergence" /\ score_i <= p.avoid_score_threshold + 5
        THEN "avoid"
        ELSE "watch"

\* action with the escalation band equal to the avoid threshold itself.
ActionNoEscalationBand(score_i, dv, f, p) ==
    LET net == NetValue(f)
    IN  IF /\ score_i >= p.buy_score_threshold
           /\ HasFreshEvent(f, p)
           /\ (f.trend_bullish_recent \/ net > 0)
        THEN "buy"
        ELSE IF /\ score_i <= p.avoid_score_threshold
                /\ HasFreshEvent(f, p)
                /\ (f.trend_bearish_recent \/ (net < 0 /\ ~f.trend_bullish_recent))
        THEN "avoid"
        ELSE IF dv.label = "bearish_divergence" /\ score_i <= p.avoid_score_threshold
        THEN "avoid"
        ELSE "watch"

\* action, from the final score_i and the divergence label.
Action(score_i, dv, f, p) ==
    LET net == NetValue(f)
        strong_insider_buy == f.insider_buy_value >= p.insider_min_value
    IN  IF /\ score_i >= p.buy_score_threshold
           /\ HasFreshEvent(f, p)
           /\ (f.trend_bullish_recent \/ net > 0)
           /\ (f.sc13_count > 0 \/ strong_insider_buy \/ f.trend_bullish_recent \/ net > 0)
        THEN "buy"
        ELSE IF /\ score_i <= p.avoid_score_threshold
                /\ HasFreshEvent(f, p)
                /\ (f.trend_bearish_recent \/ (net < 0 /\ ~f.trend_bullish_recent))
        THEN "avoid"
        ELSE IF dv.label = "bearish_divergence" /\ score_i <= p.avoid_score_threshold + 5
        THEN "avoid"
        ELSE "watch"

\* conf before the final clamp, in hundredths.
RawConfidence(dv, f, p) ==
    25
    + (IF f.sc13_count > 0 THEN 25 ELSE 0)
    + (IF f.insider_buy_value >= p.insider_min_value THEN 20
       ELSE IF f.insider_buy_value_10b5 >= p.insider_min_value THEN 5 ELSE 0)
    + (IF f.insider_sell_value >= p.insider_min_value THEN 10
       ELSE IF f.insider_sell_value_10b5 >= p.insider_min_value THEN 2 ELSE 0)
    + (IF ClusterBuy(f, p) THEN 15 ELSE 0)
    + (IF ~IsNone(f.trend) /\ (f.trend_bullish_recent \/ f.trend_bearish_recent) THEN 15 ELSE 0)
    + (IF f.volume_spike THEN 5 ELSE 0)
    + (IF ~IsNone(f.context_13f) THEN 5 ELSE 0)
    + MarketConfAdj(f) + SectorConfAdj(f) + SocialAdj(f)[2]
    + dv.confidence_adjustment

\* conf_f = float(_clamp(conf, 0.10, 0.90))
Confidence(dv, f, p) == clamp(RawConfidence(dv, f, p), 10, 90)

\* The reasons dict; tg is the guardrail result, cluster_score the score after the
\* cluster bonus (conviction_1_10 is taken before the divergence adjustment).
Reasons(tg, cluster_score, dv, f, p) ==
    [insider_min_value |-> p.insider_min_value,
     sc13 |-> [count |-> f.sc13_count],
     insider |-> [buy_value |-> f.insider_buy_value,
                  sell_value |-> f.insider_sell_value,
                  net_value |-> NetValue(f),
                  buy_value_10b5 |-> f.insider_buy_value_10b5,
                  sell_value_10b5 |-> f.insider_sell_value_10b5,
                  cluster_buy_insiders |-> f.insider_cluster_buy_insiders],
     trend |-> f.trend,
     trend_flags |-> [bullish_recent |-> f.trend_bullish_recent,
                      bearish_recent |-> f.trend_bearish_recent],
     tech_guardrail |-> tg,
     volume |-> f.volume,
     context_13f |-> f.context_13f,
     market |-> f.market,
     market_adjustment |-> [score |-> MarketScoreAdj(f), confidence |-> MarketConfAdj(f)],
     sector |-> f.sector,
     sector_adjustment |-> [score |-> SectorScoreAdj(f), confidence |-> SectorConfAdj(f)],
     social |-> f.social,
     social_adjustment |-> [score |-> SocialAdj(f)[1], confidence |-> SocialAdj(f)[2]],
     divergence |-> dv,
     conviction_1_10 |-> (cluster_score + 9) \div 10]

\* The scorer with the cluster bonus added before the guardrail instead of after it.
score_fresh_signal_bonus_before_guardrail(f, p) ==
    LET tg == apply_tech_guardrail_v0(ClusterBonus(BaseScore(f), f, p), f.trend)
        cluster_score == tg.score_after
        dv == Divergence(f)
        score_i == DivergenceAdjust(cluster_score, dv)
    IN  [ticker |-> f.ticker,
         action |-> Action(score_i, dv, f, p),
         direction |-> Direction(f),
         score |-> score_i,
         confidence |-> Confidence(dv, f, p),
         reasons |-> Reasons(tg, cluster_score, dv, f, p)]

score_fresh_signal_v0(f, p) ==
    LET tg == Guardrail(f)
        cluster_score == ClusterBonus(tg.score_after, f, p)
        dv == Divergence(f)
        score_i == DivergenceAdjust(cluster_score, dv)
    IN  [ticker |-> f.ticker,
         action |-> Action(score_i, dv, f, p),
         direction |-> Direction(f),
         score |-> score_i,
         confidence |-> Confidence(dv, f, p),
         reasons |-> Reasons(tg, cluster_score, dv, f, p)]

----------------------------------------------------------------------------
(* Inputs of score_fresh_signal_v0 *)

MaxSc13 == 2            \* sc13_count ranges over 0..MaxSc13
MaxValueLevel == 3      \* insider value aggregates range over ValueLevel(0..MaxValueLevel)

\* Dollar aggregates in $1000: nothing, just below the minimum, the minimum, $50M, ...
ValueLevel(i) ==
    CASE i = 0 -> 0
      [] i = 1 -> DefaultInsiderMinValue - 1
      [] i = 2 -> DefaultInsiderMinValue
      [] OTHER -> 50000 * (i - 2)

InsiderValues == {ValueLevel(i) : i \in 0..MaxValueLevel}
\* <<insider_buy_value_10b5, insider_sell_value_10b5>>: no planned trades, planned
\* purchases only, planned sales only.
PlannedValues ==
    {<<0, 0>>, <<ValueLevel(MaxValueLevel), 0>>, <<0, ValueLevel(MaxValueLevel)>>}

\* insider_cluster_buy_insiders for a discretionary buy value b: the insiders counted
\* are those of qualifying discretionary purchases, so there are none below the minimum.
ClusterCounts(b) == IF b >= DefaultInsiderMinValue THEN {0, 3} ELSE {0}

Tech(bullish, extended_up, near_support, near_resistance_60d, below_sma200) ==
    [bullish |-> bullish, extended_up |-> extended_up, near_support |-> near_support,
     near_resistance_60d |-> near_resistance_60d, below_sma200 |-> below_sma200]

\* Technical snapshots as compute_technical_snapshot_from_closes builds them
\* (near_support, near_resistance_60d and extended_up only when bullish), one for
\* every combination of guardrail branches: neutral, below SMA200, bullish,
\* support, chasing by extension, chasing by resistance, support and resistance.
TechSnapshots ==
    {Tech(FALSE, FALSE, FALSE, FALSE, FALSE),
     Tech(FALSE, FALSE, FALSE, FALSE, TRUE),
     Tech(TRUE, FALSE, FALSE, FALSE, FALSE),
     Tech(TRUE, FALSE, TRUE, FALSE, FALSE),
     Tech(TRUE, TRUE, FALSE, FALSE, FALSE),
     Tech(TRUE, FALSE, FALSE, TRUE, TRUE),
     Tech(TRUE, FALSE, TRUE, TRUE, FALSE)}

TrendInputs == {None} \cup {Some(t) : t \in TechSnapshots}

\* <<trend_bullish_recent, trend_bearish_recent>>: close > sma50 and close < sma50 exclude each other.
TrendFlagInputs == {<<FALSE, FALSE>>, <<TRUE, FALSE>>, <<FALSE, TRUE>>}

\* <<volume, volume_spike>>: the caller passes both; compute_fresh_signals_v0 derives
\* the flag from the dict, a direct caller may pass the flag without the dict.
VolumeInputs ==
    {<<None, FALSE>>, <<None, TRUE>>, <<Some([spike |-> TRUE]), TRUE>>}

Regime(bull, bear) == Some([bullish_recent |-> bull, bearish_recent |-> bear])
Whale(delta) == Some([delta_value_usd |-> delta])
Social(persistent, velocity, sentiment) ==
    Some([enabled |-> TRUE, velocity |-> velocity, persistent |-> persistent,
          mentions_latest |-> 20, min_mentions |-> 5,
          sentiment_hint |-> sentiment, velocity_threshold |-> 150])

\* Context bundles <<context_13f, market, sector, social>>: no context, each source
\* alone in each of its branches, and all sources pushing the same way.
ContextInputs ==
    {<<None, None, None, None>>,
     <<Whale(2000000), None, None, None>>,
     <<Whale(0 - 2000000), None, None, None>>,
     <<None, Regime(TRUE, FALSE), None, None>>,
     <<None, Regime(FALSE, TRUE), None, None>>,
     <<None, None, Regime(TRUE, FALSE), None>>,
     <<None, None, Regime(FALSE, TRUE), None>>,
     <<None, None, None, Social(TRUE, 333, Some(40))>>,
     <<None, None, None, Social(TRUE, 333, Some(0 - 40))>>,
     <<None, None, None, Social(TRUE, 333, None)>>,
     <<None, None, None, Social(TRUE, 333, Some(0))>>,
     <<None, None, None, Social(FALSE, 333, None)>>,
     <<None, None, None, Social(FALSE, 333, Some(0 - 40))>>,
     <<None, None, None, Social(TRUE, 100, Some(40))>>,
     <<Whale(2000000), Regime(TRUE, FALSE), Regime(TRUE, FALSE), Social(TRUE, 333, None)>>,
     <<Whale(0 - 2000000), Regime(FALSE, TRUE), Regime(FALSE, TRUE), Social(TRUE, 333, Some(0 - 40))>>}

AsOf == 20      \* params.as_of, in days

Params(top_n) ==
    [as_of |-> AsOf,
     fresh_days |-> DefaultFreshDays,
     insider_min_value |-> DefaultInsiderMinValue,
     top_n |-> top_n,
     buy_score_threshold |-> DefaultBuyScoreThreshold,
     avoid_score_threshold |-> DefaultAvoidScoreThreshold]

ParamInputs == {Params(DefaultTopN)}

MkFeatures(sc, b, s, b10, s10, cl, tr, fl, vo, cx) ==
    [ticker |-> "XYZ",
     sc13_count |-> sc,
     insider_buy_value |-> b, insider_sell_value |-> s,
     insider_buy_value_10b5 |-> b10, insider_sell_value_10b5 |-> s10,
     insider_cluster_buy_insiders |-> cl,
     trend |-> tr, trend_bullish_recent |-> fl[1], trend_bearish_recent |-> fl[2],
     volume |-> vo[1], volume_spike |-> vo[2],
     context_13f |-> cx[1], market |-> cx[2], sector |-> cx[3], social |-> cx[4]]

----------------------------------------------------------------------------
(* Specification of one call of score_fresh_signal_v0 *)

InitScore ==
    /\ pc = "call"
    /\ subscribers = << >> /\ subscriber_tokens = << >> /\ clock = 0 /\ last_call = None
    /\ alert_run = None /\ alert_deliveries = << >> /\ send_frame = None /\ smtp_log = << >>
    /\ \E sc \in 0..MaxSc13, b \in InsiderValues, s \in InsiderValues,
          pl \in PlannedValues,
          tr \in TrendInputs, fl \in TrendFlagInputs, vo \in VolumeInputs,
          cx \in ContextInputs, p \in ParamInputs :
          \E cl \in ClusterCounts(b) :
              /\ features = Some(MkFeatures(sc, b, s, pl[1], pl[2], cl, tr, fl, vo, cx))
              /\ params = Some(p)
    /\ row = None
    /\ sc13_table = << >> /\ insider_table = << >> /\ fresh_out = None
    /\ whale_rows = << >> /\ coverage = None /\ recs_top_n = 0 /\ recs_out = None
    /\ fresh_store = << >> /\ recs_store = << >> /\ picks_per_segment = 0 /\ segments_out = None
    /\ guard_score = 0 /\ guard_tech = None /\ guard_out = None
    /\ cands_in = << >> /\ primary_out = None
    /\ trend_dates = << >> /\ trend_closes = << >> /\ snapshot_out = None

\* A caller builds FreshSignalFeatures and FreshSignalParams and calls the scorer.
ScoreFreshSignal ==
    /\ pc = "call"
    /\ row' = Some(score_fresh_signal_v0(Val(features), Val(params)))
    /\ pc' = "returned"
    /\ UNCHANGED <<features, params, subVars, alertVars, freshVars, recsVars, segVars, guardVars, chooseVars, trendVars>>

NextScore == ScoreFreshSignal

SpecScore == InitScore /\ [][NextScore]_vars

Scored == pc = "returned"

F == Val(features)
P == Val(params)
R == Val(row)

\* C1: every result has an integer score in [0,100] and a confidence in [0.10,0.90],
\* and the score is inside [0,100] after each stage: the clamped base sum, the
\* technical guardrail, the cluster bonus and the divergence adjustment.
C1_ScoreAndConfidenceInRange ==
    Scored =>
        /\ R.reasons.tech_guardrail.score_before \in 0..100
        /\ R.reasons.tech_guardrail.score_after \in 0..100
        /\ ClusterBonus(R.reasons.tech_guardrail.score_after, F, P) \in 0..100
        /\ R.score \in 0..100
        /\ R.confidence \in 10..90

\* The unclamped sum is above 100 and the unclamped confidence above 0.90.
C1_Witness ==
    /\ Scored
    /\ RawScore(F) > 100
    /\ RawConfidence(R.reasons.divergence, F, P) > 90
    /\ R.score <= 100 /\ R.confidence = 90

\* Inputs that leave every field echoed in reasons unchanged: volume_spike is the
\* one scoring input the reasons dict does not echo.
SameAuditedInputs(f) == {[f EXCEPT !.volume_spike = v] : v \in BOOLEAN}

\* C5: two calls with the same params whose reasons are equal return the same score
\* and the same confidence.
C5_ReasonsDetermineScoreAndConfidence ==
    Scored =>
        \A f2 \in SameAuditedInputs(F) :
            LET r2 == score_fresh_signal_v0(f2, P)
            IN  r2.reasons = R.reasons => (r2.score = R.score /\ r2.confidence = R.confidence)

\* The scores obtained from the same input with a larger insider_buy_value.
LargerBuy(f) ==
    {[f EXCEPT !.insider_buy_value = v] : v \in {w \in InsiderValues : w > f.insider_buy_value}}

\* C6 as stated: a larger insider_buy_value, all else equal, gives a strictly greater
\* score unless the first score is already 100.
C6_StrictlyMonotoneInBuyValue ==
    Scored =>
        \A f2 \in LargerBuy(F) :
            R.score = 100 \/ score_fresh_signal_v0(f2, P).score > R.score

\* C6 amended: a larger insider_buy_value, all else equal, never lowers the clamped
\* base sum, and gives a score that is at least the first score, except that it is
\* exactly one lower when the divergence label goes from 'alignment' to 'none'.
C6_MonotoneUpToAlignment ==
    Scored =>
        \A f2 \in LargerBuy(F) :
            LET r2 == score_fresh_signal_v0(f2, P)
            IN  /\ r2.reasons.tech_guardrail.score_before >= R.reasons.tech_guardrail.score_before
                /\ \/ r2.score >= R.score
                   \/ /\ R.reasons.divergence.label = "alignment"
                      /\ r2.reasons.divergence.label = "none"
                      /\ r2.score = R.score - 1

\* The net goes from negative to zero under a bearish trend and the score drops by one,
\* and for another larger buy value the score rises.
C6_Witness ==
    /\ Scored
    /\ \E f2 \in LargerBuy(F) :
          /\ NetValue(F) < 0 /\ NetValue(f2) = 0
          /\ score_fresh_signal_v0(f2, P).score = R.score - 1
    /\ \E f3 \in LargerBuy(F) : score_fresh_signal_v0(f3, P).score > R.score

DefaultThresholds ==
    P.buy_score_threshold = DefaultBuyScoreThreshold /\ P.avoid_score_threshold = DefaultAvoidScoreThreshold

\* C7: with at least one SC13 filing, a bullish recent trend, a technical snapshot and
\* a non-negative insider net, the default thresholds give action 'buy', direction
\* 'bullish', score >= 75 and confidence > 0.5, whatever the other inputs are.
C7_Sc13BullishTrendBuys ==
    (Scored /\ F.sc13_count >= 1 /\ F.trend_bullish_recent /\ ~IsNone(F.trend)
        /\ NetValue(F) >= 0 /\ DefaultThresholds)
    => (R.action = "buy" /\ R.direction = "bullish"
        /\ R.score >= P.buy_score_threshold /\ R.confidence > 50)

\* The case with the chasing penalty and every context source bearish.
C7_Witness ==
    /\ Scored /\ F.sc13_count = 1 /\ F.trend_bullish_recent /\ ~IsNone(F.trend)
    /\ NetValue(F) = 0 /\ DefaultThresholds
    /\ R.reasons.tech_guardrail.ft = 9000
    /\ R.reasons.market_adjustment.score < 0 /\ R.reasons.social_adjustment.score < 0
    /\ R.action = "buy"

\* C8: without SC13, with a negative insider net, a discretionary sell value at or
\* above the minimum and a bearish (not bullish) recent trend, the direction is
\* 'bearish', the action is never 'buy', and it is 'avoid' exactly when the final
\* score is at most avoid_score_threshold.
C8_SellIntoBearishTrend ==
    (Scored /\ F.sc13_count = 0 /\ NetValue(F) < 0
        /\ F.insider_sell_value >= P.insider_min_value
        /\ F.trend_bearish_recent /\ ~F.trend_bullish_recent)
    => (R.direction = "bearish" /\ R.action # "buy"
        /\ (R.action = "avoid" <=> R.score <= P.avoid_score_threshold))

\* The score lands exactly on the avoid threshold.
C8_Witness ==
    /\ Scored /\ F.sc13_count = 0 /\ NetValue(F) < 0
    /\ F.insider_sell_value >= P.insider_min_value
    /\ F.trend_bearish_recent /\ ~F.trend_bullish_recent
    /\ R.score = P.avoid_score_threshold /\ R.action = "avoid"

\* C9: a result labelled 'bearish_divergence' whose final score is at most
\* avoid_score_threshold + 5 has action 'avoid' (buy threshold above avoid + 5).
C9_BearishDivergenceEscalates ==
    (Scored /\ R.reasons.divergence.label = "bearish_divergence"
        /\ P.buy_score_threshold > P.avoid_score_threshold + 5
        /\ R.score <= P.avoid_score_threshold + 5)
    => R.action = "avoid"

\* The score is in the band just above the avoid threshold and the action is escalated.
C9_Witness ==
    /\ Scored /\ R.reasons.divergence.label = "bearish_divergence"
    /\ R.score > P.avoid_score_threshold /\ R.score <= P.avoid_score_threshold + 5
    /\ R.action = "avoid"

C11_NoFreshEventWatches ==
    (Scored /\ F.sc13_count = 0
        /\ F.insider_buy_value < P.insider_min_value
        /\ F.insider_sell_value < P.insider_min_value
        /\ F.insider_buy_value_10b5 < P.insider_min_value
        /\ F.insider_sell_value_10b5 < P.insider_min_value)
    => R.action = "watch"

\* The social dict reports an enabled listener and a persistent spike.
PersistentSpike ==
    /\ ~IsNone(F.social)
    /\ Val(F.social).enabled /\ Val(F.social).persistent
    /\ Val(F.social).velocity >= Val(F.social).velocity_threshold
    /\ Val(F.social).mentions_latest >= Val(F.social).min_mentions

\* No SC13, zero insider values, no trend, no volume spike, no 13F, market or sector
\* context and no technical snapshot.
NoOtherEvidence ==
    /\ F.sc13_count = 0
    /\ F.insider_buy_value = 0 /\ F.insider_sell_value = 0
    /\ F.insider_buy_value_10b5 = 0 /\ F.insider_sell_value_10b5 = 0
    /\ F.insider_cluster_buy_insiders = 0
    /\ IsNone(F.trend) /\ ~F.trend_bullish_recent /\ ~F.trend_bearish_recent
    /\ IsNone(F.volume) /\ ~F.volume_spike
    /\ IsNone(F.context_13f) /\ IsNone(F.market) /\ IsNone(F.sector)

\* C16: on a persistent social spike social_adjustment.score is +4 when sentiment_hint
\* is absent or not negative and -4 otherwise; with no other evidence the score is
\* then exactly 54, respectively 46.
C16_PersistentSocialSpike ==
    (Scored /\ PersistentSpike) =>
        LET hint == Val(F.social).sentiment_hint
            adj == IF IsNone(hint) \/ Val(hint) >= 0 THEN 4 ELSE 0 - 4
        IN  /\ R.reasons.social_adjustment.score = adj
            /\ NoOtherEvidence => R.score = 50 + adj

\* A persistent spike with a negative sentiment and nothing else scores 46.
C16_Witness ==
    /\ Scored /\ PersistentSpike /\ NoOtherEvidence
    /\ ~IsNone(Val(F.social).sentiment_hint)
    /\ Val(Val(F.social).sentiment_hint) < 0
    /\ R.reasons.social_adjustment.score = 0 - 4
    /\ R.score = 46

\* Insider direction and trend direction are equal and not neutral.
DirectionsAgree ==
    /\ R.reasons.divergence.insider_direction # "neutral"
    /\ R.reasons.divergence.insider_direction = R.reasons.divergence.trend_direction

IsAlignment(dv) ==
    dv.label = "alignment" /\ dv.score_adjustment = 1 /\ dv.confidence_adjustment = 2

IsSc13TrendConflict(dv) ==
    /\ dv.label = "sc13_trend_conflict"
    /\ dv.score_adjustment = 0 - 4 /\ dv.confidence_adjustment = 0 - 6

\* C24 as stated: whenever the insider direction and the trend direction are equal and
\* not neutral, the label is 'alignment' with +1 score and +0.02 confidence, SC13
\* filings present or not.
C24_AlignmentWheneverDirectionsAgree ==
    (Scored /\ DirectionsAgree) => IsAlignment(R.reasons.divergence)

\* C24 amended: the same, except when an SC13 filing is present and both directions
\* are bearish, where the label is 'sc13_trend_conflict' (-4, -0.06).
C24_AlignmentUnlessSc13Bearish ==
    (Scored /\ DirectionsAgree) =>
        IF F.sc13_count > 0 /\ R.reasons.divergence.trend_direction = "bearish"
        THEN IsSc13TrendConflict(R.reasons.divergence)
        ELSE IsAlignment(R.reasons.divergence)

\* An SC13 filing is present, insiders buy and the trend is bullish: 'alignment'.
C24_Witness ==
    /\ Scored /\ DirectionsAgree
    /\ F.sc13_count > 0
    /\ R.reasons.divergence.trend_direction = "bullish"
    /\ R.reasons.divergence.label = "alignment"

\* C25 as stated: whenever sc13_count > 0 and the trend direction is bearish, the label
\* is 'sc13_trend_conflict' with -4 score and -0.06 confidence, whatever the sign of
\* the net insider value.
C25_Sc13ConflictWhateverNet ==
    (Scored /\ F.sc13_count > 0 /\ R.reasons.divergence.trend_direction = "bearish")
    => IsSc13TrendConflict(R.reasons.divergence)

\* C25 amended: the same when the net insider value is zero or negative; with a
\* positive net the label is 'bullish_divergence' (+3, -0.03).
C25_Sc13ConflictUnlessNetPositive ==
    (Scored /\ F.sc13_count > 0 /\ R.reasons.divergence.trend_direction = "bearish") =>
        IF NetValue(F) > 0
        THEN /\ R.reasons.divergence.label = "bullish_divergence"
             /\ R.reasons.divergence.score_adjustment = 3
             /\ R.reasons.divergence.confidence_adjustment = 0 - 3
        ELSE IsSc13TrendConflict(R.reasons.divergence)

\* An SC13 filing, a bearish trend and net insider selling: 'sc13_trend_conflict'.
C25_Witness ==
    /\ Scored /\ F.sc13_count > 0 /\ NetValue(F) < 0
    /\ R.reasons.divergence.trend_direction = "bearish"
    /\ R.reasons.divergence.label = "sc13_trend_conflict"

\* In the tuple cv of component values, component k contributes and every other
\* component contributes zero.  The volume component (4) is added only together with
\* a trend flag, so the trend component (3) is the one other component left free for it.
Alone(cv, k) ==
    /\ cv[k] # 0
    /\ \A j \in DOMAIN cv : (j # k /\ ~(k = 4 /\ j = 3)) => cv[j] = 0

\* C26 as stated: each component alone, SC13 included, leaves the sum before the clamp
\* strictly between 0 and 100.
C26_NoComponentSaturatesAlone ==
    Scored => LET cv == ComponentValues(F)
                  raw == RawScore(F)
              IN  \A k \in DOMAIN cv : Alone(cv, k) => (0 < raw /\ raw < 100)

\* C26 amended: that holds for every component but SC13; SC13 alone brings the sum
\* before the clamp to 95 + 5 * min(sc13_count, 3), which is 100 or more.
C26_OnlySc13SaturatesAlone ==
    Scored => LET cv == ComponentValues(F)
                  raw == RawScore(F)
              IN  \A k \in DOMAIN cv :
                      Alone(cv, k) =>
                          IF k = 1
                          THEN raw = 95 + 5 * Min(F.sc13_count, 3) /\ raw >= 100
                          ELSE 0 < raw /\ raw < 100

\* Net insider selling of about $50M is the only evidence: the sum is below 30 and above 0.
C26_Witness ==
    /\ Scored /\ Alone(ComponentValues(F), 2)
    /\ NetValue(F) < 0
    /\ RawScore(F) < 30 /\ RawScore(F) > 0
    /\ R.reasons.tech_guardrail.score_before = RawScore(F)

\* C27: the guardrail receives the clamped base sum, and the returned score is
\* clamp(clamp(g + c, 0, 100) + d, 0, 100), with g the guardrail's score_after, c the
\* cluster bonus (5 or 0) and d the divergence score adjustment: ft multiplies neither
\* the bonus nor the divergence adjustment.
C27_StageOrder ==
    Scored =>
        LET g == R.reasons.tech_guardrail.score_after
            c == IF F.insider_cluster_buy_insiders >= 3
                    /\ F.insider_buy_value >= P.insider_min_value THEN 5 ELSE 0
            d == R.reasons.divergence.score_adjustment
        IN  /\ R.reasons.tech_guardrail.score_before = clamp(RawScore(F), 0, 100)
            /\ R.score = clamp(clamp(g + c, 0, 100) + d, 0, 100)

\* A cluster buy scored with the chasing penalty (ft = 0.90) and a divergence
\* adjustment: the bonus and the adjustment are added whole after the guardrail, where
\* the bonus put in before the guardrail would have given a different score.
C27_Witness ==
    /\ Scored
    /\ F.insider_cluster_buy_insiders >= 3 /\ F.insider_buy_value >= P.insider_min_value
    /\ R.reasons.tech_guardrail.ft = 9000
    /\ R.reasons.divergence.score_adjustment # 0
    /\ R.reasons.tech_guardrail.score_after < 95
    /\ R.score = R.reasons.tech_guardrail.score_after + 5 + R.reasons.divergence.score_adjustment
    /\ R.score # score_fresh_signal_bonus_before_guardrail(F, P).score

----------------------------------------------------------------------------
(* tech_guardrail_v0.py: apply_tech_guardrail_v0 called on its own *)

\* Largest score handed to the guardrail.
MaxGuardScore == 100

\* tech is None or a dict with any combination of the five flags read by the guardrail.
GuardTechInputs ==
    {None} \cup {Some(Tech(b, e, s, r, u)) : b \in BOOLEAN, e \in BOOLEAN, s \in BOOLEAN,
                                             r \in BOOLEAN, u \in BOOLEAN}

InitGuardrail ==
    /\ pc = "call"
    /\ subscribers = << >> /\ subscriber_tokens = << >> /\ clock = 0 /\ last_call = None
    /\ alert_run = None /\ alert_deliveries = << >> /\ send_frame = None /\ smtp_log = << >>
    /\ guard_score \in 0..MaxGuardScore
    /\ guard_tech \in GuardTechInputs
    /\ guard_out = None
    /\ features = None /\ params = None /\ row = None
    /\ sc13_table = << >> /\ insider_table = << >> /\ fresh_out = None
    /\ whale_rows = << >> /\ coverage = None /\ recs_top_n = 0 /\ recs_out = None
    /\ fresh_store = << >> /\ recs_store = << >> /\ picks_per_segment = 0 /\ segments_out = None
    /\ cands_in = << >> /\ primary_out = None
    /\ trend_dates = << >> /\ trend_closes = << >> /\ snapshot_out = None

ApplyTechGuardrail ==
    /\ pc = "call"
    /\ guard_out' = Some(apply_tech_guardrail_v0(guard_score, guard_tech))
    /\ pc' = "returned"
    /\ UNCHANGED <<params, subVars, alertVars, scoreVars, freshVars, recsVars, segVars, chooseVars, trendVars,
                   guard_score, guard_tech>>

NextGuardrail == ApplyTechGuardrail

SpecGuardrail == InitGuardrail /\ [][NextGuardrail]_vars

\* The reference of the claim: ft starts at 1.0 and is multiplied by 1.05 and by 0.90,
\* adj is the sum of +2 and -3, each under its own condition.
ReferenceFt(t) ==
    (IF t.bullish /\ t.near_support THEN 105 ELSE 100)
    * (IF t.bullish /\ (t.extended_up \/ t.near_resistance_60d) THEN 90 ELSE 100)

ReferenceAdj(t) ==
    (IF t.bullish /\ t.near_support THEN 2 ELSE 0)
    - (IF t.below_sma200 /\ ~t.bullish THEN 3 ELSE 0)

\* clamp(round(score * ft) + adj, 0, 100), round being Python's round (ties to even).
ReferenceScoreAfter(score, t) ==
    Max(0, Min(100, RoundHalfEven(score * ReferenceFt(t), 10000) + ReferenceAdj(t)))

\* C12: for every score in 0..100 and every flag combination the guardrail returns
\* the reference: without a snapshot score_after = score_before = score, ft = 1.0,
\* adj = 0 and the note 'no technical data'; with one, ft and adj of the reference and
\* score_after = clamp(round(score * ft) + adj, 0, 100).
C12_GuardrailEqualsReference ==
    (pc = "returned" /\ ~IsNone(guard_out)) =>
        LET g == Val(guard_out)
        IN  /\ g.score_before = guard_score
            /\ IF IsNone(guard_tech)
               THEN /\ g.score_after = guard_score
                    /\ g.ft = 10000 /\ g.adj = 0
                    /\ g.notes = <<"no technical data">>
               ELSE /\ g.ft = ReferenceFt(Val(guard_tech))
                    /\ g.adj = ReferenceAdj(Val(guard_tech))
                    /\ g.score_after = ReferenceScoreAfter(guard_score, Val(guard_tech))

\* A half-way product meets both multipliers and the support bonus:
\* 100 * 0.945 = 94.5 rounds to 94, and 94 + 2 = 96.
C12_Witness ==
    /\ pc = "returned" /\ ~IsNone(guard_out) /\ ~IsNone(guard_tech)
    /\ Val(guard_out).ft = 9450 /\ Val(guard_out).adj = 2
    /\ (guard_score * Val(guard_out).ft) % 10000 = 5000
    /\ Val(guard_out).score_after = 96

----------------------------------------------------------------------------
(* fresh_signals_v0.py: compute_fresh_signals_v0 *)

\* sorted() orders ticker strings; the tickers of the model in that order.
TickerOrder == <<"AAA", "BBB">>
Tickers == {TickerOrder[i] : i \in DOMAIN TickerOrder}
TickerRank(t) == CHOOSE i \in DOMAIN TickerOrder : TickerOrder[i] = t

RECURSIVE SortedSeq(_)
\* sorted(set): the elements of a set of tickers in ascending order.
SortedSeq(S) ==
    IF S = {} THEN << >>
    ELSE LET m == CHOOSE t \in S : \A u \in S : TickerRank(t) <= TickerRank(u)
         IN  <<m>> \o SortedSeq(S \ {m})

\* fresh_start = params.as_of - timedelta(days=params.fresh_days)
FreshStart(p) == p.as_of - p.fresh_days

\* The LargeOwnerFiling query: filed_at is not null and filed_at >= fresh_start.
Sc13Rows(table, p) ==
    SelectSeq(table, LAMBDA r : r.filed_at >= FreshStart(p))

\* The InsiderTx query: event_date >= fresh_start, not derivative, code P or S.
InsiderEvents(table, p) ==
    SelectSeq(table, LAMBDA r : /\ r.event_date >= FreshStart(p)
                                /\ ~r.is_derivative
                                /\ r.transaction_code \in {"P", "S"})

\* Keys of sc13_by_ticker and of insider_events_by_ticker: rows without a ticker are skipped.
KeysOf(rows) == {rows[i].ticker : i \in DOMAIN rows} \ {""}

\* sc13_by_ticker.get(t, {"count": 0, ...})["count"]
Sc13Count(rows, t) == Len(SelectSeq(rows, LAMBDA r : r.ticker = t))

\* insider_events_by_ticker.get(t, [])
EventsOf(events, t) == SelectSeq(events, LAMBDA r : r.ticker = t)

\* The ticker list without the set(): one entry per stored row.
FreshTickersPerRow(sc13_rows, insider_events) ==
    [i \in 1..Len(sc13_rows) |-> sc13_rows[i].ticker]
    \o [i \in 1..Len(insider_events) |-> insider_events[i].ticker]

\* tickers = sorted(set(sc13_by_ticker.keys()) | set(insider_events_by_ticker.keys()))
FreshTickers(sc13_rows, insider_events) ==
    SortedSeq(KeysOf(sc13_rows) \cup KeysOf(insider_events))

\* Value of one insider row: the stored transaction value, else shares * price, else
\* shares * last close on or before the event (the database of the model holds no
\* price bars, so that lookup finds nothing); None when it cannot be resolved.
ResolveValue(r) ==
    IF ~IsNone(r.transaction_value) THEN r.transaction_value
    ELSE IF ~IsNone(r.shares) /\ ~IsNone(r.price) THEN Some(Val(r.shares) * Val(r.price))
    ELSE None

\* float(x) succeeds on the stored value of the field: the row lists the fields whose
\* stored value is not a number (a text in a REAL column).
Coercible(r, field) == field \notin r.malformed

\* The loop body raises ValueError on row r: float(tx_value), or float(shares) *
\* float(price) when there is no stored value, or float(shares) and float(price) in the
\* evidence entry appended for a row that entered the aggregates.
RowRaises(r, p) ==
    LET has_value == ~IsNone(r.transaction_value)
        estimates == ~has_value /\ ~IsNone(r.shares) /\ ~IsNone(r.price)
        resolving == \/ has_value /\ ~Coercible(r, "transaction_value")
                     \/ estimates /\ (~Coercible(r, "shares") \/ ~Coercible(r, "price"))
        value == ResolveValue(r)
        appended == ~IsNone(value) /\ Val(value) >= p.insider_min_value
        detailing == \/ ~IsNone(r.shares) /\ ~Coercible(r, "shares")
                     \/ ~IsNone(r.price) /\ ~Coercible(r, "price")
    IN  /\ r.transaction_code \in {"P", "S"}
        /\ resolving \/ (appended /\ detailing)

\* The call raises instead of returning: some row of a ticker of the loop raises.
Raises(sc13, insider, p) ==
    LET insider_events == InsiderEvents(insider, p)
    IN  \E i \in DOMAIN insider_events :
            insider_events[i].ticker # "" /\ RowRaises(insider_events[i], p)

\* A row enters the aggregates when its value is resolved and at least insider_min_value.
Qualifies(r, p) ==
    /\ r.transaction_code \in {"P", "S"}
    /\ ~IsNone(ResolveValue(r))
    /\ Val(ResolveValue(r)) >= p.insider_min_value

EmptyAggregate ==
    [buy_value |-> 0, sell_value |-> 0, buy_count |-> 0, sell_count |-> 0,
     buy_value_10b5 |-> 0, sell_value_10b5 |-> 0, buy_count_10b5 |-> 0, sell_count_10b5 |-> 0,
     cluster_buy_insiders |-> {}]

\* One iteration of the aggregation loop.
AddEvent(a, r, p) ==
    IF ~Qualifies(r, p) THEN a
    ELSE LET value == Val(ResolveValue(r))
             is_10b5 == IF IsNone(r.is_10b5_1) THEN FALSE ELSE Val(r.is_10b5_1)
         IN  IF r.transaction_code = "P"
             THEN IF is_10b5
                  THEN [a EXCEPT !.buy_value_10b5 = @ + value, !.buy_count_10b5 = @ + 1]
                  ELSE [a EXCEPT !.buy_value = @ + value, !.buy_count = @ + 1,
                                 !.cluster_buy_insiders =
                                     IF r.insider_cik # "" THEN @ \cup {r.insider_cik}
                                     ELSE IF r.insider_name # "" THEN @ \cup {r.insider_name}
                                     ELSE @]
             ELSE IF is_10b5
                  THEN [a EXCEPT !.sell_value_10b5 = @ + value, !.sell_count_10b5 = @ + 1]
                  ELSE [a EXCEPT !.sell_value = @ + value, !.sell_count = @ + 1]

RECURSIVE Aggregate(_, _, _)
\* The aggregation loop over the events of one ticker, events[1..n].
Aggregate(events, n, p) ==
    IF n = 0 THEN EmptyAggregate
    ELSE AddEvent(Aggregate(events, n - 1, p), events[n], p)

\* The features of one ticker: no price bars (trend, volume None), no social rows,
\* no 13F run, no market or sector regime.
TickerFeatures(t, sc13_count, a) ==
    [ticker |-> t,
     sc13_count |-> sc13_count,
     insider_buy_value |-> a.buy_value, insider_sell_value |-> a.sell_value,
     insider_buy_value_10b5 |-> a.buy_value_10b5, insider_sell_value_10b5 |-> a.sell_value_10b5,
     insider_cluster_buy_insiders |-> Cardinality(a.cluster_buy_insiders),
     trend |-> None, trend_bullish_recent |-> FALSE, trend_bearish_recent |-> FALSE,
     volume |-> None, volume_spike |-> FALSE,
     context_13f |-> None, market |-> None, sector |-> None, social |-> None]

\* Body of "for t in tickers": the rows appended for ticker t (none when skipped).
TickerRows(t, sc13_rows, insider_events, p) ==
    LET sc13_count == Sc13Count(sc13_rows, t)
        events == EventsOf(insider_events, t)
        a == Aggregate(events, Len(events), p)
    IN  IF sc13_count = 0
           /\ a.buy_count + a.sell_count + a.buy_count_10b5 + a.sell_count_10b5 = 0
        THEN << >>
        ELSE <<score_fresh_signal_v0(TickerFeatures(t, sc13_count, a), p)>>

RECURSIVE ScoreTickers(_, _, _, _, _)
\* out after the loop over tickers[1..n].
ScoreTickers(tickers, n, sc13_rows, insider_events, p) ==
    IF n = 0 THEN << >>
    ELSE ScoreTickers(tickers, n - 1, sc13_rows, insider_events, p)
         \o TickerRows(tickers[n], sc13_rows, insider_events, p)

\* key=lambda r: (r.score, r.confidence), compared for reverse=True.
KeyGreater(x, y) ==
    x.score > y.score \/ (x.score = y.score /\ x.confidence > y.confidence)

RECURSIVE SortedByScore(_, _)
\* sorted(out, key=..., reverse=True) over out[1..n]: stable, equal keys keep their order.
SortedByScore(out, n) ==
    IF n = 0 THEN << >>
    ELSE LET prev == SortedByScore(out, n - 1)
             x == out[n]
             k == Cardinality({i \in DOMAIN prev : ~KeyGreater(x, prev[i])})
         IN  SubSeq(prev, 1, k) \o <<x>> \o SubSeq(prev, k + 1, Len(prev))

compute_fresh_signals_v0(sc13, insider, p) ==
    LET sc13_rows == Sc13Rows(sc13, p)
        insider_events == InsiderEvents(insider, p)
        tickers == FreshTickers(sc13_rows, insider_events)
        out == ScoreTickers(tickers, Len(tickers), sc13_rows, insider_events, p)
        sorted == SortedByScore(out, Len(out))
    IN  IF tickers = << >> THEN << >>
        ELSE SubSeq(sorted, 1, Min(p.top_n, Len(sorted)))

----------------------------------------------------------------------------
(* Inputs of compute_fresh_signals_v0 *)

MaxSc13Rows == 2        \* LargeOwnerFiling rows in the database
MaxInsiderRows == 2     \* InsiderTx rows in the database

\* Days before the freshness window, inside it, and after as_of.
StaleDay == AsOf - DefaultFreshDays - 1
FreshDay == AsOf - 1
LaterDay == AsOf + 1
DayInputs == {StaleDay, FreshDay, LaterDay}

\* LargeOwnerFiling rows: one ticker filed before, inside and after the window, the
\* other inside it, and a filing without a ticker.
Sc13RowInputs ==
    {[ticker |-> TickerOrder[1], filed_at |-> d] : d \in DayInputs}
    \cup {[ticker |-> TickerOrder[2], filed_at |-> FreshDay],
          [ticker |-> "", filed_at |-> FreshDay]}

\* <<transaction_code, transaction_value>>: a purchase and a sale worth twice the
\* minimum, a purchase below the minimum.
InsiderKindInputs ==
    {<<"P", Some(2 * DefaultInsiderMinValue)>>,
     <<"S", Some(2 * DefaultInsiderMinValue)>>,
     <<"P", Some(DefaultInsiderMinValue \div 2)>>}

InsiderRow(t, k, d) ==
    [ticker |-> t, transaction_code |-> k[1], transaction_value |-> k[2],
     shares |-> None, price |-> None, is_derivative |-> FALSE,
     insider_name |-> "Jane Doe", insider_cik |-> "0001", is_10b5_1 |-> None,
     event_date |-> d, malformed |-> {}]

\* A purchase whose stored value is a text, and one without a stored value whose
\* shares are a text next to a price of 10: the numbers held by the malformed fields
\* are never read.
MalformedRowInputs ==
    {[InsiderRow(TickerOrder[1], <<"P", Some(0)>>, FreshDay)
          EXCEPT !.malformed = {"transaction_value"}],
     [InsiderRow(TickerOrder[1], <<"P", None>>, FreshDay)
          EXCEPT !.shares = Some(0), !.price = Some(10), !.malformed = {"shares"}]}

\* InsiderTx rows: every kind for one ticker before and inside the window and for the
\* other inside it, and one purchase dated after as_of.
InsiderRowInputs ==
    {InsiderRow(TickerOrder[1], k, d) : k \in InsiderKindInputs, d \in {StaleDay, FreshDay}}
    \cup {InsiderRow(TickerOrder[2], k, FreshDay) : k \in InsiderKindInputs}
    \cup {InsiderRow(TickerOrder[1], <<"P", Some(2 * DefaultInsiderMinValue)>>, LaterDay)}
    \cup MalformedRowInputs

SeqsUpTo(S, n) == UNION {[1..m -> S] : m \in 0..n}

\* top_n small enough to cut the list, and the default.
TopNInputs == {1, DefaultTopN}

----------------------------------------------------------------------------
(* Specification of one run of compute_fresh_signals_v0 *)

InitFresh ==
    /\ pc = "call"
    /\ subscribers = << >> /\ subscriber_tokens = << >> /\ clock = 0 /\ last_call = None
    /\ alert_run = None /\ alert_deliveries = << >> /\ send_frame = None /\ smtp_log = << >>
    /\ sc13_table \in SeqsUpTo(Sc13RowInputs, MaxSc13Rows)
    /\ insider_table \in SeqsUpTo(InsiderRowInputs, MaxInsiderRows)
    /\ \E n \in TopNInputs : params = Some(Params(n))
    /\ fresh_out = None
    /\ features = None /\ row = None
    /\ whale_rows = << >> /\ coverage = None /\ recs_top_n = 0 /\ recs_out = None
    /\ fresh_store = << >> /\ recs_store = << >> /\ picks_per_segment = 0 /\ segments_out = None
    /\ guard_score = 0 /\ guard_tech = None /\ guard_out = None
    /\ cands_in = << >> /\ primary_out = None
    /\ trend_dates = << >> /\ trend_closes = << >> /\ snapshot_out = None

\* The call returns its list, or a ValueError leaves it without a result.
ComputeFreshSignals ==
    /\ pc = "call"
    /\ IF Raises(sc13_table, insider_table, Val(params))
       THEN fresh_out' = None /\ pc' = "raised"
       ELSE /\ fresh_out' = Some(compute_fresh_signals_v0(sc13_table, insider_table, Val(params)))
            /\ pc' = "returned"
    /\ UNCHANGED <<params, subVars, alertVars, sc13_table, insider_table, scoreVars, recsVars, segVars, guardVars, chooseVars, trendVars>>

NextFresh == ComputeFreshSignals

SpecFresh == InitFresh /\ [][NextFresh]_vars

FreshRows == Val(fresh_out)

\* C2: compute_fresh_signals_v0 never returns two rows with the same ticker,
\* whatever number of SC13 filings and insider transactions a ticker has.
C2_OneRowPerTicker ==
    pc = "returned" =>
        \A i, j \in DOMAIN FreshRows : i # j => FreshRows[i].ticker # FreshRows[j].ticker

\* A ticker with two SC13 filings and two qualifying insider transactions in the
\* window gets its row.
C2_Witness ==
    /\ pc = "returned"
    /\ \E t \in Tickers :
          /\ Sc13Count(Sc13Rows(sc13_table, P), t) = 2
          /\ Len(SelectSeq(EventsOf(InsiderEvents(insider_table, P), t),
                           LAMBDA r : Qualifies(r, P))) = 2
          /\ \E i \in DOMAIN FreshRows : FreshRows[i].ticker = t

\* The freshness window of the run: as_of - fresh_days <= d <= as_of.
InWindow(d) == FreshStart(P) <= d /\ d <= P.as_of

\* Ticker t has an SC13 filing in the window or a qualifying insider transaction
\* (in the window, non-derivative, code P or S, resolved value >= insider_min_value).
QualifyingTicker(t) ==
    \/ \E i \in DOMAIN sc13_table :
          sc13_table[i].ticker = t /\ InWindow(sc13_table[i].filed_at)
    \/ \E i \in DOMAIN insider_table :
          /\ insider_table[i].ticker = t /\ InWindow(insider_table[i].event_date)
          /\ ~insider_table[i].is_derivative
          /\ Qualifies(insider_table[i], P)

\* C17: the returned list has a row for every qualifying ticker and none for a ticker
\* with zero qualifying evidence, however many tickers qualify.
C17_RowForEveryQualifyingTicker ==
    pc = "returned" =>
        \A t \in Tickers :
            QualifyingTicker(t) <=> \E i \in DOMAIN FreshRows : FreshRows[i].ticker = t

\* The tables without the rows dated outside the freshness window.
Sc13InWindow == SelectSeq(sc13_table, LAMBDA r : InWindow(r.filed_at))
InsiderInWindow == SelectSeq(insider_table, LAMBDA r : InWindow(r.event_date))

\* C18: only SC13 filings with as_of - fresh_days <= filed_at <= as_of and insider
\* transactions with as_of - fresh_days <= event_date <= as_of contribute: the run
\* returns what it returns on the tables without the rows outside the window, so rows
\* dated after as_of change nothing.
C18_OnlyWindowRowsContribute ==
    pc = "returned" =>
        FreshRows = compute_fresh_signals_v0(Sc13InWindow, InsiderInWindow, P)

\* A non-derivative P or S row in the window whose shares, price or stored value
\* cannot be coerced to a number.
MalformedInWindow(r) ==
    /\ r.malformed # {} /\ InWindow(r.event_date)
    /\ ~r.is_derivative /\ r.transaction_code \in {"P", "S"}

InsiderWellFormed == SelectSeq(insider_table, LAMBDA r : ~MalformedInWindow(r))

\* C19: with a malformed insider row in the window the run completes without an
\* error and returns what the remaining evidence gives, the row left out.
C19_MalformedRowsDropped ==
    (pc # "call" /\ \E i \in DOMAIN insider_table : MalformedInWindow(insider_table[i]))
    => /\ pc = "returned"
       /\ FreshRows = compute_fresh_signals_v0(sc13_table, InsiderWellFormed, P)

----------------------------------------------------------------------------
(* recommendations_v0.py: score_recommendations_from_13f *)
(* Scores and confidences are computed in millionths (55000000 = 55.0),    *)
(* 13F dollar values in millions of dollars (1000 = $1B).                  *)

\* (s or "").strip().lower() over the OpenFIGI labels of the model.
LabelLower(s) ==
    CASE s = "Equity" -> "equity"
      [] s = "Common Stock" -> "common stock"
      [] s = "ETF" -> "etf"
      [] s = "ETP" -> "etp"
      [] s = "Mutual Fund" -> "mutual fund"
      [] s = "Unit" -> "unit"
      [] s = "Corp" -> "corp"
      [] OTHER -> s

\* "etf" in s, "fund" in s, "unit" in s for the lower-cased labels.
HasEtf(s) == s \in {"etf"}
HasFund(s) == s \in {"mutual fund"}
HasUnit(s) == s \in {"unit"}

is_equity(r) ==
    LET ms == LabelLower(r.market_sector)
        st == LabelLower(r.security_type)
        st2 == LabelLower(r.security_type2)
    IN  IF ms # "" /\ ms # "equity" THEN FALSE
        ELSE IF HasEtf(st) \/ HasEtf(st2) THEN FALSE
        ELSE IF HasFund(st) \/ HasFund(st2) THEN FALSE
        ELSE IF HasUnit(st2) THEN FALSE
        ELSE IF st2 # "" /\ (st2 \in {"equity", "common stock"} \/ ms = "equity") THEN TRUE
        ELSE ms = "equity" \/ (ms = "" /\ st = "" /\ st2 = "")

\* ticker.upper().endswith("IV"): of the tickers of the model only "AIV" does.
looks_like_etf_or_fund(ticker) == ticker \in {"AIV"}

\* The filter loop: ticker present, positive delta, equity, not an ETF-like ticker.
Filtered(rows) ==
    SelectSeq(rows, LAMBDA r : /\ r.ticker # ""
                               /\ r.delta_value_usd > 0
                               /\ is_equity(r)
                               /\ ~looks_like_etf_or_fund(r.ticker))

RECURSIVE SortedByAbsDelta(_, _)
\* sorted(filtered, key=lambda r: abs(r.delta_value_usd), reverse=True), stable.
SortedByAbsDelta(rows, n) ==
    IF n = 0 THEN << >>
    ELSE LET prev == SortedByAbsDelta(rows, n - 1)
             x == rows[n]
             k == Cardinality({i \in DOMAIN prev :
                                  Abs(prev[i].delta_value_usd) >= Abs(x.delta_value_usd)})
         IN  SubSeq(prev, 1, k) \o <<x>> \o SubSeq(prev, k + 1, Len(prev))

\* abs_rank = {r.ticker: i for i, r in enumerate(sorted_by_abs)}: the last row of a
\* ticker sets its rank (0-based).
AbsRank(sorted, t) ==
    (CHOOSE i \in DOMAIN sorted :
        sorted[i].ticker = t /\ \A j \in DOMAIN sorted : sorted[j].ticker = t => j <= i) - 1

\* 10 * clamp(log1p(max(total, 0)) / log1p(1e11), 0, 1) in millionths, for the
\* total_value_usd values of the model ($5B and $20B).
SizeScore(total) ==
    CASE total <= 0 -> 0
      [] total = 5000 -> 8817245
      [] total = 20000 -> 9364573

\* 0.15 * clamp(log1p(manager_count) / log1p(25), 0, 1) in millionths, by manager_count.
ManagerConfidence(mc) ==
    LET table == <<0, 31912, 50579, 63824, 74097, 82491, 89588, 95736, 101158, 106009,
                   110397, 114403, 118088, 121500, 124676, 127648, 130439, 133070, 135559,
                   137921, 140167, 142309, 144355, 146315, 148194>>
    IN  IF mc >= 25 THEN 150000 ELSE table[mc + 1]

\* base = mag_score + breadth_score + size_score - penalty, in millionths.
RecBase(r, rank, max_rank, cov) ==
    LET mag_score == (55000000 * (max_rank - rank)) \div max_rank
        breadth_score == IF r.manager_count # 0
                         THEN (25000000 * r.manager_increase_count) \div r.manager_count
                         ELSE 0
        coverage_pen == IF IsNone(cov) THEN 0 ELSE 500000 * clamp(20 - Val(cov), 0, 20)
        sample_pen == IF r.manager_count < 3 THEN 6000000 ELSE 0
    IN  mag_score + breadth_score + SizeScore(r.total_value_usd) - (coverage_pen + sample_pen)

\* conf before its clamp, in millionths.
RecRawConfidence(r, max_abs_delta, cov) ==
    200000
    + ManagerConfidence(r.manager_count)
    + (200000 * Min(Abs(r.delta_value_usd), max_abs_delta)) \div max_abs_delta
    - (IF IsNone(cov) THEN 0 ELSE 15000 * clamp(10 - Val(cov), 0, 10))

\* A RecommendationRow whose action follows the score as in the fresh scorer.
RecommendationRowActionByScore(r, sorted, cov) ==
    LET n == Len(sorted)
        max_rank == Max(1, n - 1)
        max_abs_delta == Abs(sorted[1].delta_value_usd)
        rank == AbsRank(sorted, r.ticker)
        score == RoundHalfEven(clamp(RecBase(r, rank, max_rank, cov), 0, 100000000), 1000000)
    IN  [ticker |-> r.ticker,
         action |-> IF score >= DefaultBuyScoreThreshold THEN "buy" ELSE "watch",
         direction |-> "bullish",
         score |-> score,
         confidence |-> clamp(RecRawConfidence(r, max_abs_delta, cov), 50000, 650000),
         reasons |-> [delta_value_usd |-> r.delta_value_usd,
                      total_value_usd |-> r.total_value_usd,
                      breadth |-> [increase |-> r.manager_increase_count,
                                   decrease |-> r.manager_decrease_count,
                                   total |-> r.manager_count],
                      rank_abs_delta |-> rank + 1,
                      universe_size |-> n]]

\* The RecommendationRow built for one filtered row.
RecommendationRow(r, sorted, cov) ==
    LET n == Len(sorted)
        max_rank == Max(1, n - 1)
        max_abs_delta == Abs(sorted[1].delta_value_usd)
        rank == AbsRank(sorted, r.ticker)
    IN  [ticker |-> r.ticker,
         action |-> "watch",
         direction |-> "bullish",
         score |-> RoundHalfEven(clamp(RecBase(r, rank, max_rank, cov), 0, 100000000), 1000000),
         confidence |-> clamp(RecRawConfidence(r, max_abs_delta, cov), 50000, 650000),
         reasons |-> [delta_value_usd |-> r.delta_value_usd,
                      total_value_usd |-> r.total_value_usd,
                      breadth |-> [increase |-> r.manager_increase_count,
                                   decrease |-> r.manager_decrease_count,
                                   total |-> r.manager_count],
                      rank_abs_delta |-> rank + 1,
                      universe_size |-> n]]

\* The scoring loop "for r in filtered": one RecommendationRow per filtered row.
RecRows(filtered, sorted, cov) ==
    [i \in DOMAIN filtered |-> RecommendationRow(filtered[i], sorted, cov)]

score_recommendations_from_13f(rows, cov, top_n) ==
    LET filtered == Filtered(rows)
        sorted_by_abs == SortedByAbsDelta(filtered, Len(filtered))
        out == RecRows(filtered, sorted_by_abs, cov)
        sorted == SortedByScore(out, Len(out))
    IN  IF filtered = << >> THEN << >>
        ELSE SubSeq(sorted, 1, Min(top_n, Len(sorted)))

----------------------------------------------------------------------------
(* Inputs of score_recommendations_from_13f *)

MaxWhaleRows == 2       \* rows handed to score_recommendations_from_13f

\* <<delta_value_usd, total_value_usd>>: a decrease, $1B and $3B increases.
WhaleValueInputs ==
    {<<0 - 1000, 5000>>, <<1000, 5000>>, <<3000, 20000>>}

\* <<manager_count, manager_increase_count, manager_decrease_count>>
ManagerInputs == {<<2, 1, 1>>, <<10, 7, 2>>}

\* <<market_sector, security_type, security_type2>>: unlabelled, common stock, ETF by
\* security_type2, ETF by security_type alone.
LabelInputs ==
    {<<"", "", "">>, <<"Equity", "Common Stock", "Common Stock">>, <<"Equity", "ETP", "ETF">>,
     <<"", "ETF", "">>}

\* Row i of the list: each row has its own CUSIP.
WhaleDeltaRow(i, t, v, m, l) ==
    [ticker |-> t, cusip |-> i,
     delta_value_usd |-> v[1], total_value_usd |-> v[2],
     manager_count |-> m[1], manager_increase_count |-> m[2], manager_decrease_count |-> m[3],
     market_sector |-> l[1], security_type |-> l[2], security_type2 |-> l[3]]

WhaleRowInputs(i) ==
    {WhaleDeltaRow(i, t, v, m, l) :
        t \in Tickers, v \in WhaleValueInputs, m \in ManagerInputs, l \in LabelInputs}
    \cup {WhaleDeltaRow(i, "", <<1000, 5000>>, <<10, 7, 2>>, <<"", "", "">>),
          WhaleDeltaRow(i, "AIV", <<1000, 5000>>, <<10, 7, 2>>, <<"", "", "">>)}

WhaleRowLists ==
    UNION {{rows \in [1..m -> WhaleRowInputs(1) \cup WhaleRowInputs(2) \cup WhaleRowInputs(3)] :
               \A i \in 1..m : rows[i].cusip = i} : m \in 0..MaxWhaleRows}

\* mapped_coverage_ratio: unknown, 5% and 50%.
CoverageInputs == {None, Some(5), Some(50)}

----------------------------------------------------------------------------
(* Specification of one call of score_recommendations_from_13f *)

InitRecs ==
    /\ pc = "call"
    /\ subscribers = << >> /\ subscriber_tokens = << >> /\ clock = 0 /\ last_call = None
    /\ alert_run = None /\ alert_deliveries = << >> /\ send_frame = None /\ smtp_log = << >>
    /\ whale_rows \in WhaleRowLists
    /\ coverage \in CoverageInputs
    /\ recs_top_n \in TopNInputs
    /\ recs_out = None
    /\ params = None /\ features = None /\ row = None
    /\ sc13_table = << >> /\ insider_table = << >> /\ fresh_out = None
    /\ fresh_store = << >> /\ recs_store = << >> /\ picks_per_segment = 0 /\ segments_out = None
    /\ guard_score = 0 /\ guard_tech = None /\ guard_out = None
    /\ cands_in = << >> /\ primary_out = None
    /\ trend_dates = << >> /\ trend_closes = << >> /\ snapshot_out = None

ScoreRecommendations ==
    /\ pc = "call"
    /\ recs_out' = Some(score_recommendations_from_13f(whale_rows, coverage, recs_top_n))
    /\ pc' = "returned"
    /\ UNCHANGED <<params, subVars, alertVars, scoreVars, freshVars, whale_rows, coverage, recs_top_n, segVars, guardVars, chooseVars, trendVars>>

NextRecs == ScoreRecommendations

SpecRecs == InitRecs /\ [][NextRecs]_vars

RecsRows == Val(recs_out)

CandidateSet == Filtered(whale_rows)

\* security_type or security_type2 contains 'ETF'.
EtfLabelled(r) == r.security_type \in {"ETF"} \/ r.security_type2 \in {"ETF"}

\* market_sector, security_type and security_type2 all empty.
NoMetadata(r) == r.market_sector = "" /\ r.security_type = "" /\ r.security_type2 = ""

\* C13: a row labelled ETF in security_type or security_type2 is never a candidate,
\* whatever its delta; a row with a ticker, a positive delta and no metadata at all is
\* a candidate, so the call returns rows and each counts it in universe_size.
C13_CandidateFiltering ==
    pc = "returned" =>
        \A i \in DOMAIN whale_rows :
            LET r == whale_rows[i]
            IN  /\ EtfLabelled(r) => \A k \in DOMAIN CandidateSet : CandidateSet[k] # r
                /\ (r.ticker # "" /\ r.delta_value_usd > 0 /\ NoMetadata(r))
                   => /\ \E k \in DOMAIN CandidateSet : CandidateSet[k] = r
                      /\ RecsRows # << >>
                      /\ \A k \in DOMAIN RecsRows :
                            RecsRows[k].reasons.universe_size = Len(CandidateSet)

\* C14: every returned row has action 'watch', a score in 0..100 and a confidence of
\* at most 0.65, whatever the rows and the coverage ratio (null included).
C14_WatchOnlyCappedConfidence ==
    pc = "returned" =>
        \A i \in DOMAIN RecsRows :
            /\ RecsRows[i].action = "watch"
            /\ RecsRows[i].score \in 0..100
            /\ RecsRows[i].confidence <= 650000

\* Without a coverage ratio, two rows are returned and one of them scores at or above
\* the fresh scorer's buy threshold, still with action 'watch'.
C14_Witness ==
    /\ pc = "returned"
    /\ IsNone(coverage)
    /\ \E i \in DOMAIN RecsRows :
          RecsRows[i].score >= DefaultBuyScoreThreshold /\ RecsRows[i].action = "watch"
    /\ Len(RecsRows) = 2

----------------------------------------------------------------------------
(* backend/app/snapshot/segments_v0.py                                     *)
(* Strengths are in thousandths of a point.  Stored confidences are in     *)
(* millionths.  A fresh row's insider values are in $1000 and a            *)
(* recommendation row's delta_value_usd is in $1M, as above.                *)

\* _safe_get(d, k1, k2): None when a key is missing on the way.
SafeGet(d, k1, k2) ==
    IF k1 \in DOMAIN d
    THEN (IF k2 \in DOMAIN d[k1] THEN Some(d[k1][k2]) ELSE None)
    ELSE None

\* _safe_get(d, k): None when the key is missing.
SafeGet1(d, k) == IF k \in DOMAIN d THEN Some(d[k]) ELSE None

\* _to_int(x, 0) and _to_float(x, 0.0): a missing value becomes the default.
ToNumber(x) == IF IsNone(x) THEN 0 ELSE Val(x)

\* bool(x or False)
ToBool(x) == IF IsNone(x) THEN FALSE ELSE Val(x)

\* str(x or "")
ToStr(x) == IF IsNone(x) THEN "" ELSE Val(x)

SegmentKeys == <<"insider", "activist", "institutional", "momentum", "risk">>

\* SEGMENT_PRIORITY
SegmentPriority(key) == CHOOSE i \in DOMAIN SegmentKeys : SegmentKeys[i] = key

SegmentPick(ticker, score, action, confidence, source_kind) ==
    [ticker |-> ticker, score |-> score, action |-> action,
     confidence |-> confidence, source_kind |-> source_kind]

SegmentCandidate(key, strength, pick) ==
    [key |-> key, priority |-> SegmentPriority(key), strength |-> strength, pick |-> pick]

\* {r.ticker: r for r in rows}.get(ticker): the last row of the ticker, or None.
ByTicker(rows, t) ==
    LET idx == {i \in DOMAIN rows : rows[i].ticker = t}
    IN  IF idx = {} THEN None
        ELSE Some(rows[CHOOSE i \in idx : \A j \in idx : j <= i])

\* The sort key with the priority not negated: ties go to the higher priority number.
StrengthKeyGreaterByPriorityNumber(x, y) ==
    x.strength > y.strength \/ (x.strength = y.strength /\ x.priority > y.priority)

\* key=lambda c: (c.strength, -c.priority), compared for reverse=True.
StrengthKeyGreater(x, y) ==
    x.strength > y.strength \/ (x.strength = y.strength /\ x.priority < y.priority)

RECURSIVE SortedByStrength(_, _)
\* sorted(cands, key=lambda c: (c.strength, -c.priority), reverse=True) over cands[1..n]
SortedByStrength(cands, n) ==
    IF n = 0 THEN << >>
    ELSE LET prev == SortedByStrength(cands, n - 1)
             x == cands[n]
             k == Cardinality({i \in DOMAIN prev : ~StrengthKeyGreater(x, prev[i])})
         IN  SubSeq(prev, 1, k) \o <<x>> \o SubSeq(prev, k + 1, Len(prev))

\* Primary segment by static bucket priority alone.
choose_primary_by_priority(cands) ==
    cands[CHOOSE i \in DOMAIN cands : \A j \in DOMAIN cands : cands[i].priority <= cands[j].priority]

\* _choose_primary_segment for a non-empty list of candidates.
choose_primary_segment(cands) ==
    LET by_strength == SortedByStrength(cands, Len(cands))
        top == by_strength[1]
        risks == SelectSeq(by_strength, LAMBDA c : c.key = "risk")
    IN  IF risks # << >> /\ top.key # "risk" /\ risks[1].strength >= top.strength + 6000
        THEN risks[1]
        ELSE top

\* The candidates of one ticker, in the order the loop body appends them.
Candidates(ticker, fresh, recs) ==
    LET has_fresh == ~IsNone(fresh)
        has_recs == ~IsNone(recs)
        fresh_reasons == IF has_fresh THEN Val(fresh).reasons ELSE [k \in {} |-> 0]
        rec_reasons == IF has_recs THEN Val(recs).reasons ELSE [k \in {} |-> 0]
        fresh_score == IF has_fresh THEN Val(fresh).score ELSE 0
        fresh_conf == IF has_fresh THEN Val(fresh).confidence ELSE 0
        fresh_action == IF has_fresh THEN Val(fresh).action ELSE "watch"
        rec_score == IF has_recs THEN Val(recs).score ELSE 0
        rec_conf == IF has_recs THEN Val(recs).confidence ELSE 0
        rec_action == IF has_recs THEN Val(recs).action ELSE "watch"
        sc13_count == ToNumber(SafeGet(fresh_reasons, "sc13", "count"))
        buy_value == ToNumber(SafeGet(fresh_reasons, "insider", "buy_value"))
        sell_value == ToNumber(SafeGet(fresh_reasons, "insider", "sell_value"))
        cluster_buy == ToBool(SafeGet(fresh_reasons, "insider_quality", "cluster_buy"))
        trend_bull == ToBool(SafeGet(fresh_reasons, "trend_flags", "bullish_recent"))
        trend_bear == ToBool(SafeGet(fresh_reasons, "trend_flags", "bearish_recent"))
        delta == ToNumber(SafeGet1(rec_reasons, "delta_value_usd"))
        inc == ToNumber(SafeGet(rec_reasons, "breadth", "increase"))
        total == Max(1, ToNumber(SafeGet(rec_reasons, "breadth", "total")))
        trend_recent_top == ToBool(SafeGet(rec_reasons, "corroborators", "trend_bullish_recent"))
        divergence_type == ToStr(SafeGet(fresh_reasons, "divergence", "type"))
        fresh_momentum == has_fresh /\ trend_bull /\ ~trend_bear
        top_score == Max(fresh_score, rec_score)
        top_conf == Max(fresh_conf, rec_conf)
        risk_points ==
            (IF has_fresh /\ fresh_action = "avoid" THEN 16 ELSE 0)
            + (IF has_recs /\ rec_action = "avoid" THEN 10 ELSE 0)
            + (IF trend_bear THEN 10 ELSE 0)
            + (IF sell_value > buy_value THEN 8 ELSE 0)
            + (IF divergence_type \in {"bearish_divergence", "sc13_trend_conflict"} THEN 8 ELSE 0)
        insider ==
            IF has_fresh /\ buy_value > 0
            THEN <<SegmentCandidate("insider",
                       1000 * fresh_score + (IF cluster_buy THEN 4000 ELSE 0) + Min(6000, buy_value),
                       SegmentPick(ticker, fresh_score, fresh_action, fresh_conf, "fresh_signals_v0"))>>
            ELSE << >>
        activist ==
            IF has_fresh /\ sc13_count > 0
            THEN <<SegmentCandidate("activist",
                       1000 * fresh_score + Min(8000, 2000 * sc13_count),
                       SegmentPick(ticker, fresh_score, fresh_action, fresh_conf, "fresh_signals_v0"))>>
            ELSE << >>
        institutional ==
            IF has_recs /\ delta > 0
            THEN <<SegmentCandidate("institutional",
                       1000 * rec_score + (10000 * inc) \div total + Min(6000, delta),
                       SegmentPick(ticker, rec_score, rec_action, rec_conf, "recommendations_v0"))>>
            ELSE << >>
        momentum ==
            IF fresh_momentum \/ (has_recs /\ trend_recent_top)
            THEN <<SegmentCandidate("momentum",
                       1000 * top_score + (IF trend_bull THEN 3000 ELSE 0),
                       SegmentPick(ticker, top_score,
                                   IF fresh_momentum THEN fresh_action ELSE rec_action,
                                   top_conf,
                                   IF fresh_momentum THEN "fresh_signals_v0"
                                                     ELSE "recommendations_v0"))>>
            ELSE << >>
        risk ==
            IF risk_points > 0 /\ has_fresh
            THEN <<SegmentCandidate("risk",
                       1000 * top_score + 1000 * risk_points,
                       SegmentPick(ticker, top_score, "avoid", top_conf, "fresh_signals_v0"))>>
            ELSE << >>
    IN  insider \o activist \o institutional \o momentum \o risk

\* Every candidate of the ticker claims its own segment.
ClaimedByEveryCandidate(cands) == cands

\* What one ticker appends to segment_picks: its primary candidate alone.
Claimed(cands) == <<choose_primary_segment(cands)>>

\* all_tickers = sorted(set(fresh_by_ticker) | set(recs_by_ticker))
AllTickers(fresh_rows, recs_rows) == SortedSeq(KeysOf(fresh_rows) \cup KeysOf(recs_rows))

RECURSIVE AssignTickers(_, _, _, _)
\* The loop "for ticker in all_tickers" over tickers[1..n]: the locals assignment and
\* segment_picks after it.
AssignTickers(tickers, n, fresh_rows, recs_rows) ==
    IF n = 0
    THEN [assignment |-> [t \in {} |-> ""],
          segment_picks |-> [k \in DOMAIN SegmentKeys |-> << >>]]
    ELSE LET prev == AssignTickers(tickers, n - 1, fresh_rows, recs_rows)
             ticker == tickers[n]
             cands == Candidates(ticker, ByTicker(fresh_rows, ticker), ByTicker(recs_rows, ticker))
         IN  IF cands = << >> THEN prev
             ELSE [assignment |->
                       [t \in DOMAIN prev.assignment \cup {ticker} |->
                           IF t = ticker THEN choose_primary_segment(cands).key
                           ELSE prev.assignment[t]],
                   segment_picks |->
                       [k \in DOMAIN SegmentKeys |->
                           prev.segment_picks[k]
                           \o SelectSeq(Claimed(cands), LAMBDA c : c.key = SegmentKeys[k])]]

\* key=lambda c: (c.strength, c.pick.confidence), compared for reverse=True.
PickKeyGreater(x, y) ==
    x.strength > y.strength \/ (x.strength = y.strength /\ x.pick.confidence > y.pick.confidence)

RECURSIVE SortedPicks(_, _)
\* sorted(xs, key=lambda c: (c.strength, c.pick.confidence), reverse=True) over xs[1..n]
SortedPicks(xs, n) ==
    IF n = 0 THEN << >>
    ELSE LET prev == SortedPicks(xs, n - 1)
             x == xs[n]
             k == Cardinality({i \in DOMAIN prev : ~PickKeyGreater(x, prev[i])})
         IN  SubSeq(prev, 1, k) \o <<x>> \o SubSeq(prev, k + 1, Len(prev))

\* _bucket(key, ..., _sort(xs)): the picks cut to max(1, picks_per_segment).
Bucket(key, xs, n) ==
    LET sorted == SortedPicks(xs, Len(xs))
        picks == [i \in DOMAIN sorted |-> sorted[i].pick]
    IN  [key |-> key, picks |-> SubSeq(picks, 1, Min(Len(picks), Max(1, n)))]

\* compute_segments_v0.  The locals assignment and segment_picks, as they stand at the
\* return, are kept next to the returned meta and segments.
compute_segments_v0(fresh_rows, recs_rows, n) ==
    LET tickers == AllTickers(fresh_rows, recs_rows)
        loop == AssignTickers(tickers, Len(tickers), fresh_rows, recs_rows)
    IN  [assignment |-> loop.assignment,
         segment_picks |-> loop.segment_picks,
         meta |-> [ticker_assignment_count |-> Cardinality(DOMAIN loop.assignment)],
         segments |-> [k \in DOMAIN SegmentKeys |->
                          Bucket(SegmentKeys[k], loop.segment_picks[k], n)]]

----------------------------------------------------------------------------
(* Inputs of compute_segments_v0: the rows the two snapshot runs stored *)

\* <<sc13_count, buy, sell, trend flags>> of a ticker that compute_fresh_signals_v0
\* scores: an SC13 filing or a qualifying insider trade, with or without a recent trend.
StoredShapeInputs ==
    {x \in (0..1)
           \X {<<0, 0>>, <<ValueLevel(3), 0>>, <<0, ValueLevel(3)>>, <<ValueLevel(2), ValueLevel(3)>>}
           \X TrendFlagInputs :
        x[1] > 0 \/ x[2] # <<0, 0>>}

\* The stored row of the FreshSignalRow scored for ticker t; the confidence column is
\* converted from hundredths to millionths.
StoredFresh(t, x) ==
    LET f == [MkFeatures(x[1], x[2][1], x[2][2], 0, 0, 0, None, x[3], <<None, FALSE>>,
                         <<None, None, None, None>>) EXCEPT !.ticker = t]
        r == score_fresh_signal_v0(f, Params(DefaultTopN))
    IN  [ticker |-> r.ticker, score |-> r.score, action |-> r.action,
         confidence |-> 10000 * r.confidence, reasons |-> r.reasons]

\* The stored row of a recommendation after the snapshot command added its context.
StoredRec(t, x) ==
    [ticker |-> t, score |-> x.score, action |-> x.action, confidence |-> x.confidence,
     reasons |-> [delta_value_usd |-> x.delta,
                  breadth |-> [increase |-> x.inc, total |-> x.total],
                  corroborators |-> [trend_bullish_recent |-> x.trend_bullish_recent],
                  trend_adjustment |-> x.trend_adjustment]]

RecInput(score, confidence, action, delta, inc, total, bull, adj) ==
    [score |-> score, confidence |-> confidence, action |-> action, delta |-> delta,
     inc |-> inc, total |-> total, trend_bullish_recent |-> bull, trend_adjustment |-> adj]

\* Stored recommendations: accumulation with and without a recent bullish trend,
\* a bought one, and reductions with and without the trend.
StoredRecInputs ==
    {RecInput(62, 400000, "watch", 1000, 1, 2, FALSE, 0),
     RecInput(85, 600000, "buy", 3000, 7, 10, TRUE, 8),
     RecInput(30, 200000, "watch", 0 - 1000, 1, 2, FALSE, 0 - 8),
     RecInput(55, 300000, "watch", 0 - 1000, 7, 10, TRUE, 8),
     RecInput(70, 500000, "watch", 1000, 7, 10, TRUE, 8)}

\* The rows of the latest fresh_signals_v0 run, read back ordered by score and
\* confidence, descending: at most one row for a ticker (run_id and ticker are unique).
StoredFreshRows(choice) ==
    LET present == SortedSeq({t \in Tickers : ~IsNone(choice[t])})
        rows == [i \in DOMAIN present |-> StoredFresh(present[i], Val(choice[present[i]]))]
    IN  SortedByScore(rows, Len(rows))

\* The rows of the latest recommendations_v0 run, read back the same way.
StoredRecRows(choice) ==
    LET present == SortedSeq({t \in Tickers : ~IsNone(choice[t])})
        rows == [i \in DOMAIN present |-> StoredRec(present[i], Val(choice[present[i]]))]
    IN  SortedByScore(rows, Len(rows))

OptionsOf(S) == {None} \cup {Some(x) : x \in S}

PicksPerSegmentInputs == {1, 2}

----------------------------------------------------------------------------
(* Specification of one call of compute_segments_v0 *)

InitSegments ==
    /\ pc = "call"
    /\ subscribers = << >> /\ subscriber_tokens = << >> /\ clock = 0 /\ last_call = None
    /\ alert_run = None /\ alert_deliveries = << >> /\ send_frame = None /\ smtp_log = << >>
    /\ \E fc \in [Tickers -> OptionsOf(StoredShapeInputs)] :
          fresh_store = StoredFreshRows(fc)
    /\ \E rc \in [Tickers -> OptionsOf(StoredRecInputs)] :
          recs_store = StoredRecRows(rc)
    /\ picks_per_segment \in PicksPerSegmentInputs
    /\ segments_out = None
    /\ params = None /\ features = None /\ row = None
    /\ sc13_table = << >> /\ insider_table = << >> /\ fresh_out = None
    /\ whale_rows = << >> /\ coverage = None /\ recs_top_n = 0 /\ recs_out = None
    /\ guard_score = 0 /\ guard_tech = None /\ guard_out = None
    /\ cands_in = << >> /\ primary_out = None
    /\ trend_dates = << >> /\ trend_closes = << >> /\ snapshot_out = None

ComputeSegments ==
    /\ pc = "call"
    /\ segments_out' = Some(compute_segments_v0(fresh_store, recs_store, picks_per_segment))
    /\ pc' = "returned"
    /\ UNCHANGED <<params, subVars, alertVars, scoreVars, freshVars, recsVars, guardVars, chooseVars, trendVars,
                   fresh_store, recs_store, picks_per_segment>>

NextSegments == ComputeSegments

SpecSegments == InitSegments /\ [][NextSegments]_vars

Segments == Val(segments_out)

\* The tickers for which the loop body builds at least one candidate.
TickersWithCandidates ==
    {t \in Tickers :
        Candidates(t, ByTicker(fresh_store, t), ByTicker(recs_store, t)) # << >>}

\* The segments whose claimed list holds ticker t.
ClaimingSegments(t) ==
    {k \in DOMAIN SegmentKeys :
        \E i \in DOMAIN Segments.segment_picks[k] : Segments.segment_picks[k][i].pick.ticker = t}

\* The buckets of the output whose picks hold ticker t.
ShowingBuckets(t) ==
    {k \in DOMAIN Segments.segments :
        \E i \in DOMAIN Segments.segments[k].picks : Segments.segments[k].picks[i].ticker = t}

\* C4: after compute_segments_v0 returns, every ticker with at least one candidate is
\* assigned to exactly one of the five segments (and claimed by that segment alone,
\* once), the assignment count is the number of such tickers, and no ticker is in the
\* picks of more than one bucket of the output.
C4_OneSegmentPerTicker ==
    (pc = "returned" /\ ~IsNone(segments_out)) =>
        /\ DOMAIN Segments.assignment = TickersWithCandidates
        /\ Segments.meta.ticker_assignment_count = Cardinality(TickersWithCandidates)
        /\ \A t \in TickersWithCandidates :
              /\ \E k \in DOMAIN SegmentKeys :
                    /\ Segments.assignment[t] = SegmentKeys[k]
                    /\ ClaimingSegments(t) = {k}
                    /\ Len(SelectSeq(Segments.segment_picks[k],
                                     LAMBDA c : c.pick.ticker = t)) = 1
        /\ \A t \in Tickers : Cardinality(ShowingBuckets(t)) <= 1

\* Both tickers have several candidates each, are assigned to different segments, and
\* both are shown.
C4_Witness ==
    /\ pc = "returned" /\ ~IsNone(segments_out)
    /\ TickersWithCandidates = Tickers
    /\ \A t \in Tickers :
          /\ Len(Candidates(t, ByTicker(fresh_store, t), ByTicker(recs_store, t))) >= 3
          /\ Cardinality(ShowingBuckets(t)) = 1
    /\ \E t, u \in Tickers : Segments.assignment[t] # Segments.assignment[u]

\* The strength of the risk candidate built for a ticker, AbsentRisk when none is built.
AbsentRisk == 0 - 1

RiskStrength(fresh, recs) ==
    LET risks == SelectSeq(Candidates(Val(fresh).ticker, fresh, recs),
                           LAMBDA c : c.key = "risk")
    IN  IF risks = << >> THEN AbsentRisk ELSE risks[1].strength

\* The stored row with the scorer's divergence label replaced by 'none'.
WithLabelNone(r) == [r EXCEPT !.reasons.divergence.label = "none"]

\* C28: for a stored fresh row that the scorer labelled 'bearish_divergence' or
\* 'sc13_trend_conflict', the risk strength that compute_segments_v0 builds is 8 points
\* above the risk strength it builds for the same row labelled 'none'.
C28_SegmentsReadScorerDivergence ==
    pc = "returned" =>
        \A i \in DOMAIN fresh_store :
            LET r == fresh_store[i]
                recs == ByTicker(recs_store, r.ticker)
            IN  r.reasons.divergence.label \in {"bearish_divergence", "sc13_trend_conflict"}
                => RiskStrength(Some(r), recs)
                     = RiskStrength(Some(WithLabelNone(r)), recs) + 8000

----------------------------------------------------------------------------
(* segments_v0.py: _choose_primary_segment called on a candidate list *)

\* Strengths in thousandths: 50, 55.999, 56 and 62 points; -1 marks an absent candidate.
StrengthInputs == {50000, 55999, 56000, 62000}
AbsentCandidate == 0 - 1

\* The pick carried by the candidates of the lists below.
CandidatePick == SegmentPick("AAA", 50, "watch", 500000, "fresh_signals_v0")

\* The loop body appends at most one candidate per segment, in the order
\* insider, activist, institutional, momentum, risk.
CandidateList(strengths) ==
    LET all == [i \in DOMAIN SegmentKeys |->
                   SegmentCandidate(SegmentKeys[i], strengths[i], CandidatePick)]
    IN  SelectSeq(all, LAMBDA c : c.strength # AbsentCandidate)

CandidateLists ==
    {CandidateList(f) : f \in [DOMAIN SegmentKeys -> StrengthInputs \cup {AbsentCandidate}]}

InitChoose ==
    /\ pc = "call"
    /\ subscribers = << >> /\ subscriber_tokens = << >> /\ clock = 0 /\ last_call = None
    /\ alert_run = None /\ alert_deliveries = << >> /\ send_frame = None /\ smtp_log = << >>
    /\ cands_in \in CandidateLists
    /\ primary_out = None
    /\ features = None /\ params = None /\ row = None
    /\ sc13_table = << >> /\ insider_table = << >> /\ fresh_out = None
    /\ whale_rows = << >> /\ coverage = None /\ recs_top_n = 0 /\ recs_out = None
    /\ fresh_store = << >> /\ recs_store = << >> /\ picks_per_segment = 0 /\ segments_out = None
    /\ guard_score = 0 /\ guard_tech = None /\ guard_out = None
    /\ trend_dates = << >> /\ trend_closes = << >> /\ snapshot_out = None

\* "if not cands: return None", otherwise the selection.
ChoosePrimarySegment ==
    /\ pc = "call"
    /\ primary_out' = IF cands_in = << >> THEN None
                      ELSE Some(choose_primary_segment(cands_in))
    /\ pc' = "returned"
    /\ UNCHANGED <<params, subVars, alertVars, scoreVars, freshVars, recsVars, segVars, guardVars, trendVars,
                   cands_in>>

NextChoose == ChoosePrimarySegment

SpecChoose == InitChoose /\ [][NextChoose]_vars

\* The list holds a risk candidate at least 6 points above every non-risk candidate.
RiskMateriallyStronger ==
    \E i \in DOMAIN cands_in :
        /\ cands_in[i].key = "risk"
        /\ \A j \in DOMAIN cands_in :
              cands_in[j].key # "risk" => cands_in[i].strength >= cands_in[j].strength + 6000

\* C15: when the candidate list holds a risk candidate whose strength is at least 6
\* above the strongest non-risk candidate, the primary segment returned is 'risk'.
C15_RiskOverride ==
    (pc = "returned" /\ RiskMateriallyStronger) =>
        (~IsNone(primary_out) /\ Val(primary_out).key = "risk")

\* Risk wins at exactly 6 points above an insider candidate, which has the better
\* static priority.
C15_Witness ==
    /\ pc = "returned" /\ RiskMateriallyStronger
    /\ \E i, j \in DOMAIN cands_in :
          /\ cands_in[i].key = "risk" /\ cands_in[j].key = "insider"
          /\ cands_in[i].strength = cands_in[j].strength + 6000
    /\ Val(primary_out).key = "risk"

\* C22: None is returned exactly for the empty list; otherwise the candidate returned
\* has the maximal strength of the list and, among the candidates of that strength,
\* the lowest priority number.
C22_StrongestThenPriority ==
    pc = "returned" =>
        /\ IsNone(primary_out) <=> cands_in = << >>
        /\ ~IsNone(primary_out) =>
              /\ \E i \in DOMAIN cands_in : cands_in[i] = Val(primary_out)
              /\ \A j \in DOMAIN cands_in :
                    \/ cands_in[j].strength < Val(primary_out).strength
                    \/ /\ cands_in[j].strength = Val(primary_out).strength
                       /\ Val(primary_out).priority <= cands_in[j].priority

\* Three candidates share the maximal strength and a weaker insider candidate is
\* present: the activist candidate is returned.
C22_Witness ==
    /\ pc = "returned" /\ ~IsNone(primary_out)
    /\ Val(primary_out).key = "activist"
    /\ Cardinality({j \in DOMAIN cands_in :
                       cands_in[j].strength = Val(primary_out).strength}) = 3
    /\ \E j \in DOMAIN cands_in :
          cands_in[j].key = "insider" /\ cands_in[j].strength < Val(primary_out).strength

\* C23: with a risk candidate and a non-risk candidate in the list, 'risk' is returned
\* only if the risk strength is at least 6 above the strongest non-risk candidate.
C23_RiskOnlyWhenMateriallyStronger ==
    (pc = "returned" /\ ~IsNone(primary_out)
        /\ Val(primary_out).key = "risk"
        /\ \E j \in DOMAIN cands_in : cands_in[j].key # "risk")
    => RiskMateriallyStronger

----------------------------------------------------------------------------
(* trend.py: compute_technical_snapshot_from_closes                        *)
(* Closes are whole numbers.  A quotient is kept as <<numerator,           *)
(* denominator>> with a positive denominator and compared by               *)
(* cross-multiplication; the closes of the model keep every ratio away     *)
(* from the thresholds 0.02 and 0.08, where float rounding would decide.   *)

RECURSIVE SumRange(_, _, _)
\* sum(closes[lo..hi]), added up by halves; sum(closes[-k:]) is SumRange(closes, n - k + 1, n).
SumRange(closes, lo, hi) ==
    IF lo > hi THEN 0
    ELSE IF lo = hi THEN closes[lo]
    ELSE SumRange(closes, lo, (lo + hi) \div 2) + SumRange(closes, (lo + hi) \div 2 + 1, hi)

\* compute_trend_from_closes: as_of_date, close, sma50 and return_20d (bullish is
\* recomputed by the snapshot and not read from here).
compute_trend_from_closes(dates, closes) ==
    LET n == Len(closes)
    IN  IF dates = << >> \/ closes = << >> \/ Len(dates) # n
        THEN [as_of_date |-> None, close |-> None, sma50 |-> None, return_20d |-> None]
        ELSE [as_of_date |-> Some(dates[Len(dates)]),
              close |-> Some(closes[n]),
              sma50 |-> IF n >= 50 THEN Some(<<SumRange(closes, n - 49, n), 50>>) ELSE None,
              return_20d |-> IF n >= 21 /\ closes[n - 20] # 0
                             THEN Some(<<closes[n] - closes[n - 20], closes[n - 20]>>)
                             ELSE None]

\* _pct(a, b) = a / b - 1 for a close a and a quotient b; None when b is None or 0.
Pct(a, b) ==
    IF IsNone(a) \/ IsNone(b) THEN None
    ELSE IF Val(b)[1] = 0 THEN None
    ELSE Some(<<Val(a) * Val(b)[2] - Val(b)[1], Val(b)[1]>>)

\* bullish = close > sma50 and ret20 > 0, all three non-null.
IsBullish(close, sma50, ret20) ==
    /\ ~IsNone(close) /\ ~IsNone(sma50) /\ ~IsNone(ret20)
    /\ Val(close) * Val(sma50)[2] > Val(sma50)[1]
    /\ Val(ret20)[1] > 0

\* bearish as the complement of bullish.
IsBearishWhenNotBullish(close, sma50, ret20) == ~IsBullish(close, sma50, ret20)

\* bearish = close < sma50 and ret20 < 0, all three non-null.
IsBearish(close, sma50, ret20) ==
    /\ ~IsNone(close) /\ ~IsNone(sma50) /\ ~IsNone(ret20)
    /\ Val(close) * Val(sma50)[2] < Val(sma50)[1]
    /\ Val(ret20)[1] < 0

compute_technical_snapshot_from_closes(dates, closes) ==
    LET tm == compute_trend_from_closes(dates, closes)
        n == Len(closes)
        close == tm.close
        sma50 == tm.sma50
        ret20 == tm.return_20d
        ret60 == IF n >= 61 /\ closes[n - 60] # 0
                 THEN Some(<<closes[n] - closes[n - 60], closes[n - 60]>>)
                 ELSE None
        sma200 == IF n >= 200 THEN Some(<<SumRange(closes, n - 199, n), 200>>) ELSE None
        window == {closes[i] : i \in (n - 59)..n}
        high60 == IF n >= 60 THEN Some(<<CHOOSE x \in window : \A y \in window : y <= x, 1>>)
                  ELSE None
        low60 == IF n >= 60 THEN Some(<<CHOOSE x \in window : \A y \in window : x <= y, 1>>)
                 ELSE None
        dist_sma50 == Pct(close, sma50)
        dist_sma200 == Pct(close, sma200)
        dist_high60 == Pct(close, high60)
        dist_low60 == Pct(close, low60)
        bullish == IsBullish(close, sma50, ret20)
        bearish == IsBearish(close, sma50, ret20)
        near_sma50 == ~IsNone(dist_sma50)
                      /\ 50 * Abs(Val(dist_sma50)[1]) <= Val(dist_sma50)[2]
    IN  [as_of_date |-> tm.as_of_date,
         close |-> close, sma50 |-> sma50, sma200 |-> sma200,
         return_20d |-> ret20, return_60d |-> ret60,
         high_60d |-> high60, low_60d |-> low60,
         dist_sma50_pct |-> dist_sma50, dist_sma200_pct |-> dist_sma200,
         dist_high_60d_pct |-> dist_high60, dist_low_60d_pct |-> dist_low60,
         bullish |-> bullish,
         bearish |-> bearish,
         near_support |-> bullish /\ Val(close) * Val(sma50)[2] >= Val(sma50)[1] /\ near_sma50,
         near_resistance_60d |-> bullish /\ ~IsNone(dist_high60)
                                 /\ 50 * Val(dist_high60)[1] >= 0 - Val(dist_high60)[2],
         extended_up |-> bullish /\ ~IsNone(dist_sma50)
                         /\ 25 * Val(dist_sma50)[1] >= 2 * Val(dist_sma50)[2],
         below_sma200 |-> ~IsNone(sma200) /\ ~IsNone(close)
                          /\ Val(close) * Val(sma200)[2] < Val(sma200)[1]]

\* n closes: the close 20 bars before the last one and everything older at one level,
\* the 19 closes after it at a second level, the last close at a third.
CloseSeries(n, early, mid, last) ==
    [i \in 1..n |-> IF i = n THEN last ELSE IF i > n - 20 THEN mid ELSE early]

\* Series too short for any average, long enough for return_20d only, for SMA50, for
\* the 60-bar window and for SMA200; levels 0, 90, 100 and 110; one date per close, or
\* one date missing.
InitTrend ==
    /\ pc = "call"
    /\ subscribers = << >> /\ subscriber_tokens = << >> /\ clock = 0 /\ last_call = None
    /\ alert_run = None /\ alert_deliveries = << >> /\ send_frame = None /\ smtp_log = << >>
    /\ \E n \in {0, 1, 21, 49, 50, 61, 200}, early, mid, last \in {0, 90, 100, 110},
          m \in {0, 1} :
          /\ m <= n
          /\ trend_closes = CloseSeries(n, early, mid, last)
          /\ trend_dates = [i \in 1..(n - m) |-> i]
    /\ snapshot_out = None
    /\ features = None /\ params = None /\ row = None
    /\ sc13_table = << >> /\ insider_table = << >> /\ fresh_out = None
    /\ whale_rows = << >> /\ coverage = None /\ recs_top_n = 0 /\ recs_out = None
    /\ fresh_store = << >> /\ recs_store = << >> /\ picks_per_segment = 0 /\ segments_out = None
    /\ guard_score = 0 /\ guard_tech = None /\ guard_out = None
    /\ cands_in = << >> /\ primary_out = None

ComputeTechnicalSnapshot ==
    /\ pc = "call"
    /\ snapshot_out' = Some(compute_technical_snapshot_from_closes(trend_dates, trend_closes))
    /\ pc' = "returned"
    /\ UNCHANGED <<params, subVars, alertVars, scoreVars, freshVars, recsVars, segVars, guardVars, chooseVars,
                   trend_dates, trend_closes>>

NextTrend == ComputeTechnicalSnapshot

SpecTrend == InitTrend /\ [][NextTrend]_vars

\* C20: in every snapshot returned, bullish and bearish are never both true, and each
\* is true only when sma50 and return_20d are both non-null.
C20_BullishBearishExclusive ==
    (pc = "returned" /\ ~IsNone(snapshot_out)) =>
        LET snap == Val(snapshot_out)
        IN  /\ ~(snap.bullish /\ snap.bearish)
            /\ (snap.bullish \/ snap.bearish)
               => (~IsNone(snap.sma50) /\ ~IsNone(snap.return_20d))

\* A falling series of 61 closes is bearish and not bullish.
C20_Witness ==
    /\ pc = "returned" /\ ~IsNone(snapshot_out)
    /\ Len(trend_closes) = 61
    /\ Val(snapshot_out).bearish /\ ~Val(snapshot_out).bullish
    /\ ~IsNone(Val(snapshot_out).sma50) /\ ~IsNone(Val(snapshot_out).return_20d)

----------------------------------------------------------------------------
(* subscriptions.py: the subscriber lifecycle                               *)
(* Time is counted in days.  A subscriber's id is its position in           *)
(* subscribers; a plaintext token is the position of its row in             *)
(* subscriber_tokens (secrets.token_urlsafe(32) never repeats), and         *)
(* _hash_token is one-to-one on them.                                       *)

Addresses == {"ann@x.io", "bob@x.io"}

\* An email as a caller types it: the plain address, the address in upper case with
\* blanks around it, or the address with its "@" missing.
EmailInputs == [addr : Addresses, form : {"plain", "padded_upper", "no_at"}]

\* (email or "").strip().lower()
normalize_email(email) ==
    [addr |-> email.addr, form |-> IF email.form = "padded_upper" THEN "plain" ELSE email.form]

\* not email_n or "@" not in email_n
InvalidEmail(email_n) == email_n.form = "no_at"

\* ttl_hours of the confirm and the unsubscribe token, in days (48 h and two years).
ConfirmTtlDays == 2
UnsubscribeTtlDays == 730

\* <<purpose, ttl>> as the callers of issue_token pass them.
TokenRequests == {<<"confirm", ConfirmTtlDays>>, <<"unsubscribe", UnsubscribeTtlDays>>}

MaxTokens == 2      \* SubscriberToken rows issued in a run of the model
MaxClock == 3       \* days that pass in a run of the model

\* The table after issue_token: a new row, not used, expiring ttl after now.
issue_token(tokens, subscriber_id, purpose, ttl, now) ==
    Append(tokens, [purpose |-> purpose, subscriber_id |-> subscriber_id,
                    expires_at |-> now + ttl, used_at |-> None])

\* _get_valid_token_row: the row with this token's hash and purpose, not used and not
\* expired (expires_at >= now), or None.
get_valid_token_row(tokens, token, purpose, now) ==
    IF /\ token \in DOMAIN tokens
       /\ tokens[token].purpose = purpose
       /\ IsNone(tokens[token].used_at)
       /\ tokens[token].expires_at >= now
    THEN Some(token)
    ELSE None

\* select(Subscriber).where(email == email_n).first(): the id, or None.
SubscriberByEmail(subs, email_n) ==
    LET idx == {i \in DOMAIN subs : subs[i].email = email_n}
    IN  IF idx = {} THEN None ELSE Some(CHOOSE i \in idx : \A j \in idx : i <= j)

\* The subscribers table after upsert_subscriber for a valid email.
upsert_subscriber(subs, email_n) ==
    LET found == SubscriberByEmail(subs, email_n)
    IN  IF IsNone(found)
        THEN Append(subs, [email |-> email_n, status |-> "pending",
                           confirmed_at |-> None, unsubscribed_at |-> None])
        ELSE IF subs[Val(found)].status = "unsubscribed"
        THEN [subs EXCEPT ![Val(found)].status = "pending",
                          ![Val(found)].unsubscribed_at = None]
        ELSE subs

Call(op, email, token, ok) == Some([op |-> op, email |-> email, token |-> token, ok |-> ok])

InitSubs ==
    /\ pc = "call"
    /\ subscribers = << >> /\ subscriber_tokens = << >> /\ clock = 0 /\ last_call = None
    /\ alert_run = None /\ alert_deliveries = << >> /\ send_frame = None /\ smtp_log = << >>
    /\ params = None /\ features = None /\ row = None
    /\ sc13_table = << >> /\ insider_table = << >> /\ fresh_out = None
    /\ whale_rows = << >> /\ coverage = None /\ recs_top_n = 0 /\ recs_out = None
    /\ fresh_store = << >> /\ recs_store = << >> /\ picks_per_segment = 0 /\ segments_out = None
    /\ guard_score = 0 /\ guard_tech = None /\ guard_out = None
    /\ cands_in = << >> /\ primary_out = None
    /\ trend_dates = << >> /\ trend_closes = << >> /\ snapshot_out = None

idleVars == <<pc, params, scoreVars, freshVars, recsVars, segVars, guardVars, chooseVars, trendVars>>

\* upsert_subscriber(email): ValueError for an invalid email, else the row is created
\* as pending, or returned to pending when it was unsubscribed, or left as it is.
UpsertSubscriber ==
    \E email \in EmailInputs :
        LET email_n == normalize_email(email)
        IN  /\ subscribers' = IF InvalidEmail(email_n) THEN subscribers
                              ELSE upsert_subscriber(subscribers, email_n)
            /\ last_call' = Call("upsert_subscriber", Some(email), 0, ~InvalidEmail(email_n))
            /\ UNCHANGED <<idleVars, alertVars, subscriber_tokens, clock>>

\* issue_token(subscriber_id, purpose, ttl_hours): the id is not checked against the table.
IssueToken ==
    /\ Len(subscriber_tokens) < MaxTokens
    /\ \E sid \in 1..Cardinality(Addresses), req \in TokenRequests :
          /\ subscriber_tokens' = issue_token(subscriber_tokens, sid, req[1], req[2], clock)
          /\ last_call' = Call("issue_token", None, Len(subscriber_tokens) + 1, TRUE)
    /\ UNCHANGED <<idleVars, alertVars, subscribers, clock>>

\* confirm_subscription(token); token 0 is a token that was never issued.
ConfirmSubscription ==
    \E token \in 0..MaxTokens :
        LET found == get_valid_token_row(subscriber_tokens, token, "confirm", clock)
            ok == ~IsNone(found) /\ subscriber_tokens[token].subscriber_id \in DOMAIN subscribers
            sid == subscriber_tokens[token].subscriber_id
        IN  /\ IF ok
               THEN /\ subscriber_tokens' = [subscriber_tokens EXCEPT ![token].used_at = Some(clock)]
                    /\ subscribers' =
                          [subscribers EXCEPT
                              ![sid].status = "active",
                              ![sid].confirmed_at =
                                  IF IsNone(subscribers[sid].confirmed_at) THEN Some(clock)
                                  ELSE subscribers[sid].confirmed_at]
               ELSE UNCHANGED <<subscriber_tokens, subscribers>>
            /\ last_call' = Call("confirm_subscription", None, token, ok)
            /\ UNCHANGED <<idleVars, alertVars, clock>>

\* unsubscribe(token)
Unsubscribe ==
    \E token \in 0..MaxTokens :
        LET found == get_valid_token_row(subscriber_tokens, token, "unsubscribe", clock)
            ok == ~IsNone(found) /\ subscriber_tokens[token].subscriber_id \in DOMAIN subscribers
            sid == subscriber_tokens[token].subscriber_id
        IN  /\ IF ok
               THEN /\ subscriber_tokens' = [subscriber_tokens EXCEPT ![token].used_at = Some(clock)]
                    /\ subscribers' = [subscribers EXCEPT ![sid].status = "unsubscribed",
                                                          ![sid].unsubscribed_at = Some(clock)]
               ELSE UNCHANGED <<subscriber_tokens, subscribers>>
            /\ last_call' = Call("unsubscribe", None, token, ok)
            /\ UNCHANGED <<idleVars, alertVars, clock>>

\* A day passes between two calls.
DayPasses ==
    /\ clock < MaxClock
    /\ clock' = clock + 1
    /\ UNCHANGED <<idleVars, alertVars, subscribers, subscriber_tokens, last_call>>

NextSubs ==
    \/ UpsertSubscriber
    \/ IssueToken
    \/ ConfirmSubscription
    \/ Unsubscribe
    \/ DayPasses

SpecSubs == InitSubs /\ [][NextSubs]_vars

\* C30: a subscriber whose status is 'unsubscribed' keeps that status in every step
\* but a call of upsert_subscriber for the subscriber's email; in particular no
\* confirm_subscription, whatever its token, makes the subscriber 'active' again.
C30_UnsubscribedUntilUpsert ==
    [][\A i \in DOMAIN subscribers :
          (subscribers[i].status = "unsubscribed" /\ subscribers'[i].status # "unsubscribed")
          => /\ Val(last_call').op = "upsert_subscriber"
             /\ normalize_email(Val(Val(last_call').email)) = subscribers[i].email]_vars

----------------------------------------------------------------------------
(* alerts/send_subscriber_alerts_v0.py: send_subscriber_alert_run_v0        *)
(* One call runs at a time.  Its steps end at the commits of the code: the  *)
(* entry up to the query of the active subscribers, the queued delivery of  *)
(* one subscriber, the email and the delivery's final status, the run's     *)
(* final status.  A call can also end between two commits with an exception *)
(* that is not an EmailSendError (the database, the renderer); what was     *)
(* committed stays.                                                         *)

RunId == "run-1"
RunIdInputs == {RunId, "run-unknown"}

\* limit_subscribers: 0 is no limit.
LimitInputs == {0, 1}

\* policy["diff"]["changed"] of a draft: no diff stored, True or False.
DiffChangedInputs == {None, Some(TRUE), Some(FALSE)}

StoredSubscriber(addr, status) ==
    [email |-> [addr |-> addr, form |-> "plain"], status |-> status,
     confirmed_at |-> IF status = "pending" THEN None ELSE Some(0),
     unsubscribed_at |-> IF status = "unsubscribed" THEN Some(0) ELSE None]

SubscriberStatusInputs == {"pending", "active", "unsubscribed"}

\* The locals of a call and, once it has returned, its SendAlertsResult.
Frame(stage, status, subs, queued, seen, sent, failed, skipped, changed) ==
    [stage |-> stage, status |-> status, subs |-> subs, queued |-> queued,
     subscribers_seen |-> seen, sent |-> sent, failed |-> failed, skipped |-> skipped,
     changed |-> changed]

Returned(status, seen, sent, failed, skipped, changed) ==
    Some(Frame("returned", status, << >>, None, seen, sent, failed, skipped, changed))

Raised(f) == Some([f EXCEPT !.stage = "raised"])

\* select(Subscriber).where(status == "active").order_by(created_at), cut to the limit.
ActiveSubscribers(subs, limit) ==
    LET ids == [i \in DOMAIN subs |-> i]
        active == SelectSeq(ids, LAMBDA i : subs[i].status = "active")
    IN  IF limit > 0 THEN SubSeq(active, 1, Min(limit, Len(active))) ELSE active

\* The existing-delivery test that counts only deliveries already sent.
existing_delivery_sent_only(deliveries, run_id, sid) ==
    \E i \in DOMAIN deliveries :
        /\ deliveries[i].run_id = run_id /\ deliveries[i].subscriber_id = sid
        /\ deliveries[i].status = "sent"

\* select(AlertDelivery.id).where(run_id == run.id, subscriber_id == s.id).first() is not None
existing_delivery(deliveries, run_id, sid) ==
    \E i \in DOMAIN deliveries :
        deliveries[i].run_id = run_id /\ deliveries[i].subscriber_id = sid

InitSend ==
    /\ pc = "call"
    /\ \E st \in [1..2 -> SubscriberStatusInputs] :
          subscribers = <<StoredSubscriber("ann@x.io", st[1]), StoredSubscriber("bob@x.io", st[2])>>
    /\ \E d \in DiffChangedInputs :
          alert_run = Some([id |-> RunId, status |-> "draft", diff_changed |-> d, sent_at |-> None])
    /\ subscriber_tokens = << >> /\ clock = 0 /\ last_call = None
    /\ alert_deliveries = << >> /\ send_frame = None /\ smtp_log = << >>
    /\ params = None /\ features = None /\ row = None
    /\ sc13_table = << >> /\ insider_table = << >> /\ fresh_out = None
    /\ whale_rows = << >> /\ coverage = None /\ recs_top_n = 0 /\ recs_out = None
    /\ fresh_store = << >> /\ recs_store = << >> /\ picks_per_segment = 0 /\ segments_out = None
    /\ guard_score = 0 /\ guard_tech = None /\ guard_out = None
    /\ cands_in = << >> /\ primary_out = None
    /\ trend_dates = << >> /\ trend_closes = << >> /\ snapshot_out = None

NoCallRunning ==
    IF IsNone(send_frame) THEN TRUE ELSE Val(send_frame).stage \in {"returned", "raised"}

InLoop == ~IsNone(send_frame) /\ Val(send_frame).stage = "loop"

\* The entry of send_subscriber_alert_run_v0, up to the query of the subscribers.
SendCall ==
    /\ NoCallRunning
    /\ \E run_id \in RunIdInputs, limit \in LimitInputs, force_send \in BOOLEAN :
          LET run == Val(alert_run)
              flag == IsNone(run.diff_changed) \/ Val(run.diff_changed)
              changed == force_send \/ flag
              subs == ActiveSubscribers(subscribers, limit)
          IN  IF run_id # run.id
              THEN /\ send_frame' = Raised(Frame("raised", "", << >>, None, 0, 0, 0, 0, TRUE))
                   /\ UNCHANGED alert_run
              ELSE IF run.status # "draft"
              THEN /\ send_frame' = Returned(run.status, 0, 0, 0, 0, flag)
                   /\ UNCHANGED alert_run
              ELSE IF ~changed
              THEN /\ alert_run' = Some([run EXCEPT !.status = "skipped", !.sent_at = Some(clock)])
                   /\ send_frame' = Returned("skipped", 0, 0, 0, 0, FALSE)
              ELSE /\ send_frame' = Some(Frame("loop", "draft", subs, None, Len(subs), 0, 0, 0, TRUE))
                   /\ UNCHANGED alert_run
    /\ UNCHANGED <<idleVars, subVars, alert_deliveries, smtp_log>>

\* One pass of the loop up to the commit of the delivery: the subscriber is skipped
\* when a delivery of the run exists for it; else an unsubscribe token is issued
\* (and committed), the mail is rendered and the delivery is stored as queued.  When
\* the renderer raises, the token stays and the call ends.
QueueDelivery ==
    /\ InLoop /\ IsNone(Val(send_frame).queued) /\ Val(send_frame).subs # << >>
    /\ LET f == Val(send_frame)
           s == Head(f.subs)
       IN  IF existing_delivery(alert_deliveries, RunId, s)
           THEN /\ send_frame' = Some([f EXCEPT !.skipped = @ + 1, !.subs = Tail(@)])
                /\ UNCHANGED <<subscriber_tokens, alert_deliveries>>
           ELSE /\ subscriber_tokens' =
                      issue_token(subscriber_tokens, s, "unsubscribe", UnsubscribeTtlDays, clock)
                /\ \E rendered \in IF Len(subscriber_tokens) < MaxTokens THEN BOOLEAN ELSE {TRUE} :
                      IF rendered
                      THEN /\ alert_deliveries' =
                                Append(alert_deliveries,
                                       [run_id |-> RunId, subscriber_id |-> s, status |-> "queued"])
                           /\ send_frame' =
                                Some([f EXCEPT !.queued = Some(Len(alert_deliveries) + 1)])
                      ELSE /\ send_frame' = Raised(f)
                           /\ UNCHANGED alert_deliveries
    /\ UNCHANGED <<idleVars, subscribers, clock, last_call, alert_run, smtp_log>>

\* send_email_smtp for the queued delivery: it succeeds, or raises EmailSendError, or
\* the status of a sent email is lost because the commit after it fails.
SendEmail ==
    /\ InLoop /\ ~IsNone(Val(send_frame).queued)
    /\ LET f == Val(send_frame)
           d == Val(f.queued)
       IN  /\ smtp_log' = Append(smtp_log, alert_deliveries[d].subscriber_id)
           /\ \E outcome \in {"sent", "failed", "commit_lost"} :
                 IF outcome = "commit_lost"
                 THEN /\ send_frame' = Raised(f)
                      /\ UNCHANGED alert_deliveries
                 ELSE /\ alert_deliveries' = [alert_deliveries EXCEPT ![d].status = outcome]
                      /\ send_frame' =
                            Some([f EXCEPT !.queued = None, !.subs = Tail(@),
                                           !.sent = IF outcome = "sent" THEN @ + 1 ELSE @,
                                           !.failed = IF outcome = "failed" THEN @ + 1 ELSE @])
    /\ UNCHANGED <<idleVars, subVars, alert_run>>

\* After the loop: run.status = "sent", and the counts are returned.
FinishSend ==
    /\ InLoop /\ IsNone(Val(send_frame).queued) /\ Val(send_frame).subs = << >>
    /\ LET f == Val(send_frame)
       IN  /\ alert_run' = Some([Val(alert_run) EXCEPT !.status = "sent", !.sent_at = Some(clock)])
           /\ send_frame' = Returned("sent", f.subscribers_seen, f.sent, f.failed, f.skipped, TRUE)
    /\ UNCHANGED <<idleVars, subVars, alert_deliveries, smtp_log>>

\* The call ends with an exception between two commits: the run stays a draft.
SendInterrupted ==
    /\ InLoop
    /\ send_frame' = Raised(Val(send_frame))
    /\ UNCHANGED <<idleVars, subVars, alert_run, alert_deliveries, smtp_log>>

\* A subscriber follows the unsubscribe link of a mail: Unsubscribe, as above.
NextSend ==
    \/ SendCall
    \/ QueueDelivery
    \/ SendEmail
    \/ FinishSend
    \/ SendInterrupted
    \/ Unsubscribe

SpecSend == InitSend /\ [][NextSend]_vars

DeliveriesOf(s) ==
    Cardinality({i \in DOMAIN alert_deliveries :
                    alert_deliveries[i].run_id = RunId /\ alert_deliveries[i].subscriber_id = s})

AttemptsOf(s) == Cardinality({i \in DOMAIN smtp_log : smtp_log[i] = s})

\* C21: whatever calls were made for the run, every subscriber has at most one
\* AlertDelivery row of the run and at most one email attempt, and from the moment the
\* run is 'sent' or 'skipped' no step adds a delivery, changes one or sends an email.
C21_SendIdempotent ==
    /\ [](\A s \in DOMAIN subscribers : DeliveriesOf(s) <= 1 /\ AttemptsOf(s) <= 1)
    /\ [][Val(alert_run).status \in {"sent", "skipped"}
            => (smtp_log' = smtp_log /\ alert_deliveries' = alert_deliveries)]_vars

\* A call was interrupted after it had mailed the first subscriber; a second call
\* skipped that subscriber, mailed the other one without success and finished the
\* run; a third call then returned with nothing done.
C21_Witness ==
    /\ Val(alert_run).status = "sent"
    /\ ~IsNone(send_frame) /\ Val(send_frame).stage = "returned"
    /\ Val(send_frame).subscribers_seen = 0
    /\ Len(alert_deliveries) = 2
    /\ alert_deliveries[1].status = "sent" /\ alert_deliveries[2].status = "failed"
    /\ smtp_log = <<1, 2>>

====
